---- MODULE Spec2Model ----
(***************************************************************************)
(* A model of argus-eye: the SQLite-backed event / flag / first-seen       *)
(* store (db.py), the throttled desktop notifier (desktop_notify.py) and   *)
(* the monitor orchestrator with its poller threads (monitor.py, cli.py).  *)
(*                                                                         *)
(* Each subsystem has its own specification over the shared variables:     *)
(*   SpecEvents     concurrent add_event / clear_events callers            *)
(*   SpecFlags      runtime flags with lazy expiry                         *)
(*   SpecFirstSeen  the first-seen ledger                                  *)
(*   SpecNotifier   concurrent DesktopNotifier.notify callers              *)
(*   SpecDispatch   add_event followed by _maybe_notify                    *)
(*   SpecMonitor    run_authlog_security, its six workers, cli.run         *)
(***************************************************************************)
EXTENDS Integers, Sequences, FiniteSets, TLC

VARIABLES
    now,          \* wall clock, int(time.time())
    events,       \* table events: set of rows
    seq,          \* sqlite_sequence entry of table events (AUTOINCREMENT)
    dbLock,       \* holder of SQLite's write lock on the database file, 0 = free
    call,         \* per caller: position inside add_event / clear_events
    completed,    \* history: add_event calls that returned, in order of return
    clears,       \* history: number of committed clear_events
    flags,        \* table runtime_flags: key -> row
    lastGet,      \* history: the last get_flag / remaining_seconds call
    flagSet,      \* history: when and with which ttl each flag was last set
    flagRead,     \* a get_flag call in progress: the row its SELECT returned
    first_seen,   \* table first_seen: key -> row
    touches,      \* history: per key, the first_seen_touch calls made
    lastTouch,    \* history: the last first_seen_touch call and its result
    last,         \* DesktopNotifier._last: key -> time of the last call let through
    nLock,        \* DesktopNotifier._lock: holding thread, 0 = free
    nt,           \* per thread: position inside DesktopNotifier.notify
    nCalls,       \* history: number of notify calls begun
    passes,       \* history: calls that got past the throttle
    lastResult,   \* history: the notify call that ended last, with what it returned
    dpc,          \* position of the event hand-off: add_event, then _maybe_notify
    dcur,         \* the event being handed off
    handled,      \* history: the event handed off last, and what _maybe_notify did
    nHandled,     \* history: number of events handed off
    nFaults,      \* history: number of failures inside _maybe_notify
    mainPc,       \* main thread: position in cli.run / run_authlog_security
    pending,      \* exception on its way out of run_authlog_security, "" = none
    tailFault,    \* history: the exception that ended the tailing loop
    leftWith,     \* history: how control left run_authlog_security
    stop,         \* the shared threading.Event
    joined,       \* workers whose join(timeout=2) has returned
    joinTimer,    \* the timeout of the join in progress has run out
    wpc,          \* per worker thread: position in its loop
    clock,        \* int(time.time()) as the detectors read it
    sec01_by_ip,  \* SshBruteForceDetector._by_ip: ip -> _Bucket
    sec01_out,    \* history: the last line SEC-01 handled and what it returned
    sec01_alerts, \* history: per ip, the WARNING / CRITICAL events SEC-01 returned
    sec01_n,      \* history: number of lines SEC-01 handled
    sec02_failures,     \* SshSuccessAfterFailsDetector.failures: ip -> deque
    sec02_successes,    \* SshSuccessAfterFailsDetector.successes: ip -> deque
    sec02_last_emitted, \* SshSuccessAfterFailsDetector.last_emitted: (ip, sev) -> time
    sec02_hist,   \* history: per ip, the times of all its failure lines
    sec02_out,    \* history: the last line SEC-02 handled and what it returned
    sec02_n,      \* history: number of lines SEC-02 handled
    sec03_last_emitted, \* SudoActivityDetector.last_emitted: (fingerprint, sev) -> time
    sec03_fail_ts,      \* SudoActivityDetector.sudo_fail_ts
    sec03_out,    \* history: the last line SEC-03 handled and what it returned
    sec03_info,   \* history: per fingerprint, the INFO command events SEC-03 returned
    sec03_n,      \* history: number of lines SEC-03 handled
    sec04_det,    \* the ListeningPortDetector of _sec04_loop
    sec04_hist,   \* history: the polls made, with the sockets listening at each
    sec04_out,    \* history: how the last poll ended
    sec04_emitted, \* history: per socket key, the events poll returned for it
    sec05_state,  \* FileIntegrityDetector.state: path -> _FileState
    sec05_feed,   \* table events as list_events reads it, oldest row first
    sec05_prev,   \* history: per path, the fingerprint of the poll before the last
    sec05_out,    \* history: per path, what the last poll did
    sec05_n,      \* history: number of polls SEC-05 made
    temp_hi,      \* TemperatureDetector._hi
    temp_crit,    \* TemperatureDetector._crit
    temp_events,  \* history: per gate, the kinds of the events returned
    temp_out,     \* history: the last poll: gates that flipped, events returned
    temp_n,       \* history: number of polls of the TemperatureDetector
    temp_span,    \* history: since when each gate's condition has held on every poll
    disk_det,     \* the DiskUsageDetector of _hea03_loop
    disk_hist,    \* history: the cycles of _hea03_loop
    svc_det,      \* the HeaServicesDetector of _hea04_loop
    svc_hist,     \* history: the cycles of _hea04_loop
    mem_det,      \* the MemoryPressureDetector of _hea05_loop
    mem_hist,     \* history: the polls of _hea05_loop
    win,          \* one sequence of failure timestamps in the three sliding-window counters
    tail          \* the tailing loop of run_authlog_security and its history

eventVars == <<events, seq, dbLock, call, completed, clears>>
flagVars == <<flags, lastGet, flagSet, flagRead>>
fsVars == <<first_seen, touches, lastTouch>>
notifierVars == <<last, nLock, nt, nCalls, passes, lastResult>>
dispatchVars == <<dpc, dcur, handled, nHandled, nFaults>>
monitorVars == <<mainPc, pending, tailFault, leftWith, stop, joined, joinTimer,
                 wpc>>

sec01Vars == <<sec01_by_ip, sec01_out, sec01_alerts, sec01_n>>
sec02Vars == <<sec02_failures, sec02_successes, sec02_last_emitted, sec02_hist, sec02_out, sec02_n>>
sec03Vars == <<sec03_last_emitted, sec03_fail_ts, sec03_out, sec03_info, sec03_n>>
sec04Vars == <<sec04_det, sec04_hist, sec04_out, sec04_emitted>>
sec05Vars == <<sec05_state, sec05_feed, sec05_prev, sec05_out, sec05_n>>
tempVars == <<temp_hi, temp_crit, temp_events, temp_out, temp_n, temp_span>>
heaVars ==
    <<disk_det, disk_hist, svc_det, svc_hist, mem_det, mem_hist, win, tail>>
detVars == <<clock, sec01Vars, sec02Vars, sec03Vars, sec04Vars, sec05Vars, tempVars, heaVars>>
storeVars == <<now, eventVars, flagVars, fsVars, notifierVars, dispatchVars, monitorVars>>

vars == <<storeVars, detVars>>

(***************************************************************************)
(* Bounds of the model.                                                    *)
(***************************************************************************)
NumCallers == 2      \* concurrent callers of the event store
MaxCalls == 3        \* add_event calls begun in one behaviour
MaxClears == 1       \* clear_events calls begun in one behaviour
StartTime == 100     \* the clock reads this when a behaviour starts
MaxTime == 3         \* the clock of the store specifications stops this much later
MaxTtl == 2          \* largest ttl_seconds given to set_flag
MaxTouches == 3      \* first_seen_touch calls per key
NumThreads == 2      \* threads calling the shared DesktopNotifier
MaxNotifyCalls == 4  \* notify calls begun in one behaviour
TickStep == 20       \* seconds between two readings of the notifier's clock
MaxTicks == 3        \* the clock of the notifier specification stops after this many steps
MaxEvents == 3       \* events handed off in one behaviour

None == -1           \* Python's None where an integer is expected

Max(a, b) == IF a >= b THEN a ELSE b

SetMax(S) == IF S = {} THEN 0 ELSE CHOOSE x \in S : \A y \in S : y <= x

(***************************************************************************)
(* db._now and the passing of time.                                        *)
(***************************************************************************)
Tick ==
    /\ now < StartTime + MaxTime
    /\ now' = now + 1
    /\ UNCHANGED <<events, seq, dbLock, call, completed, clears, flagVars, fsVars, notifierVars, dispatchVars, monitorVars>>
    /\ UNCHANGED detVars

(***************************************************************************)
(* Events.  add_event opens its own connection, executes one INSERT (which *)
(* begins a transaction and takes the database write lock), commits and    *)
(* returns cursor.lastrowid.  clear_events does the same with a DELETE.    *)
(* A caller that finds the lock held waits for sqlite3's busy timeout and  *)
(* then raises OperationalError("database is locked").                     *)
(***************************************************************************)
Callers == 1..NumCallers

EventArgs == {"SEC-01/WARNING", "HEA-03/CRITICAL"}   \* (code, severity, ...) of a call

Idle == [pc |-> "idle", arg |-> "", id |-> 0, startLen |-> 0, epoch |-> 0]

RowIds == {r.id : r \in events}

\* id INTEGER PRIMARY KEY: without AUTOINCREMENT the largest rowid in the table plus one.
NextRowIdNoAutoincrement == SetMax(RowIds) + 1

\* id INTEGER PRIMARY KEY AUTOINCREMENT: one more than the largest rowid ever
\* used, which SQLite keeps in sqlite_sequence.
NextRowId == Max(seq, SetMax(RowIds)) + 1

WriteLockFree == dbLock = 0

AddEventsBegun ==
    Len(completed) + Cardinality({c \in Callers : call[c].pc \in {"add_begun", "add_inserted", "add_committed"}})

\* add_event is entered; init_db finds the tables in place.
AddEventBegin(c, a) ==
    /\ call[c].pc = "idle"
    /\ AddEventsBegun < MaxCalls
    /\ call' = [call EXCEPT ![c] = [pc |-> "add_begun", arg |-> a, id |-> 0,
                                    startLen |-> Len(completed), epoch |-> 0]]
    /\ UNCHANGED <<now, events, seq, dbLock, completed, clears, flagVars, fsVars, notifierVars, dispatchVars, monitorVars>>
    /\ UNCHANGED detVars

\* conn.execute("INSERT INTO events ..."): the row is written inside the
\* caller's transaction, visible to others only after the commit.
AddEventInsert(c) ==
    /\ call[c].pc = "add_begun"
    /\ WriteLockFree
    /\ dbLock' = c
    /\ call' = [call EXCEPT ![c].pc = "add_inserted", ![c].id = NextRowId]
    /\ UNCHANGED <<now, events, seq, completed, clears, flagVars, fsVars, notifierVars, dispatchVars, monitorVars>>
    /\ UNCHANGED detVars

\* The lock stayed with another connection for the whole busy timeout:
\* sqlite3.OperationalError leaves add_event, nothing is stored.
AddEventBusy(c) ==
    /\ call[c].pc = "add_begun"
    /\ ~WriteLockFree
    /\ call' = [call EXCEPT ![c] = Idle]
    /\ UNCHANGED <<now, events, seq, dbLock, completed, clears, flagVars, fsVars, notifierVars, dispatchVars, monitorVars>>
    /\ UNCHANGED detVars

\* conn.commit()
AddEventCommit(c) ==
    /\ call[c].pc = "add_inserted"
    /\ dbLock = c
    /\ events' = events \cup {[id |-> call[c].id, arg |-> call[c].arg]}
    /\ seq' = Max(seq, call[c].id)
    /\ dbLock' = 0
    /\ call' = [call EXCEPT ![c].pc = "add_committed", ![c].epoch = clears]
    /\ UNCHANGED <<now, completed, clears, flagVars, fsVars, notifierVars, dispatchVars, monitorVars>>
    /\ UNCHANGED detVars

\* return int(cur.lastrowid)
AddEventReturn(c) ==
    /\ call[c].pc = "add_committed"
    /\ completed' = Append(completed, [id |-> call[c].id, arg |-> call[c].arg,
                                       startLen |-> call[c].startLen, epoch |-> call[c].epoch])
    /\ call' = [call EXCEPT ![c] = Idle]
    /\ UNCHANGED <<now, events, seq, dbLock, clears, flagVars, fsVars, notifierVars, dispatchVars, monitorVars>>
    /\ UNCHANGED detVars

ClearsBegun == clears + Cardinality({c \in Callers : call[c].pc \in {"clear_begun", "clear_deleted"}})

ClearEventsBegin(c) ==
    /\ call[c].pc = "idle"
    /\ ClearsBegun < MaxClears
    /\ call' = [call EXCEPT ![c].pc = "clear_begun"]
    /\ UNCHANGED <<now, events, seq, dbLock, completed, clears, flagVars, fsVars, notifierVars, dispatchVars, monitorVars>>
    /\ UNCHANGED detVars

\* conn.execute("DELETE FROM events")
ClearEventsDelete(c) ==
    /\ call[c].pc = "clear_begun"
    /\ WriteLockFree
    /\ dbLock' = c
    /\ call' = [call EXCEPT ![c].pc = "clear_deleted"]
    /\ UNCHANGED <<now, events, seq, completed, clears, flagVars, fsVars, notifierVars, dispatchVars, monitorVars>>
    /\ UNCHANGED detVars

ClearEventsBusy(c) ==
    /\ call[c].pc = "clear_begun"
    /\ ~WriteLockFree
    /\ call' = [call EXCEPT ![c] = Idle]
    /\ UNCHANGED <<now, events, seq, dbLock, completed, clears, flagVars, fsVars, notifierVars, dispatchVars, monitorVars>>
    /\ UNCHANGED detVars

\* conn.commit() of the DELETE: sqlite_sequence keeps the largest id.
ClearEventsCommit(c) ==
    /\ call[c].pc = "clear_deleted"
    /\ dbLock = c
    /\ events' = {}
    /\ clears' = clears + 1
    /\ dbLock' = 0
    /\ call' = [call EXCEPT ![c] = Idle]
    /\ UNCHANGED <<now, seq, completed, flagVars, fsVars, notifierVars, dispatchVars, monitorVars>>
    /\ UNCHANGED detVars

InitEvents ==
    /\ events = {}
    /\ seq = 0
    /\ dbLock = 0
    /\ call = [c \in Callers |-> Idle]
    /\ completed = <<>>
    /\ clears = 0

NextEvents ==
    \/ \E c \in Callers, a \in EventArgs : AddEventBegin(c, a)
    \/ \E c \in Callers : AddEventInsert(c)
    \/ \E c \in Callers : AddEventBusy(c)
    \/ \E c \in Callers : AddEventCommit(c)
    \/ \E c \in Callers : AddEventReturn(c)
    \/ \E c \in Callers : ClearEventsBegin(c)
    \/ \E c \in Callers : ClearEventsDelete(c)
    \/ \E c \in Callers : ClearEventsBusy(c)
    \/ \E c \in Callers : ClearEventsCommit(c)

\* The add_event calls that have committed: returned, or about to return.
CommittedCalls ==
    {[id |-> completed[i].id, arg |-> completed[i].arg, epoch |-> completed[i].epoch] :
        i \in 1..Len(completed)}
    \cup {[id |-> call[c].id, arg |-> call[c].arg, epoch |-> call[c].epoch] :
        c \in {d \in Callers : call[d].pc = "add_committed"}}

\* C1, as stated: every add_event call that returns has stored exactly one
\* row carrying its arguments, no row is lost or overwritten, and the id it
\* returns is greater than every id returned by a call that returned earlier.
C1_IdsIncreaseInOrderOfReturn ==
    /\ \A k \in CommittedCalls :
          k.epoch = clears =>
            /\ [id |-> k.id, arg |-> k.arg] \in events
            /\ Cardinality({r \in events : r.id = k.id}) = 1
    /\ \A i, j \in 1..Len(completed) :
          i < j => completed[j].id > completed[i].id

\* C1, amended: every add_event call that returns has stored exactly one row
\* carrying its arguments, which stays in the table until a clear_events
\* commits; the table holds no other rows; the ids returned are pairwise
\* distinct, and the id a call returns is greater than every id returned by
\* a call that had returned before this one began, also when the rows of
\* those calls have since been removed by clear_events.
C1_IdsUniqueAndIncreaseAcrossCalls ==
    /\ \A k \in CommittedCalls :
          k.epoch = clears =>
            /\ [id |-> k.id, arg |-> k.arg] \in events
            /\ Cardinality({r \in events : r.id = k.id}) = 1
    /\ \A r \in events : \E k \in CommittedCalls : k.id = r.id /\ k.arg = r.arg /\ k.epoch = clears
    /\ \A i, j \in 1..Len(completed) :
          i # j => completed[i].id # completed[j].id
    /\ \A j \in 1..Len(completed) :
          \A i \in 1..completed[j].startLen : completed[j].id > completed[i].id

\* Two calls have returned, the second begun after the first returned and
\* after a clear_events removed the first one's row.
C1_Witness ==
    \E j \in 1..Len(completed) :
        \E i \in 1..completed[j].startLen :
            /\ completed[i].epoch < completed[j].epoch
            /\ completed[j].epoch = clears
            /\ events # {}

(***************************************************************************)
(* Runtime flags.  Each call runs on a connection of its own.              *)
(***************************************************************************)
FlagKeys == {"monitor_state", "mute", "maintenance"}

Ttls == {None} \cup (0..MaxTtl)

\* The writes the program makes: cli.set_state, cli.mute, cli.maintenance.
FlagWrites ==
    {<<"monitor_state", v, None>> : v \in {"RUNNING", "STOPPED"}}
    \cup {<<k, "1", t>> : k \in {"mute", "maintenance"}, t \in 0..MaxTtl}

NoRow == [present |-> FALSE, value |-> "", expires_at |-> None]

NoGet == [op |-> "", key |-> "", at |-> 0, before |-> NoRow, result |-> NoRow, remaining |-> None]

NeverSet == [at |-> 0, ttl |-> None]

\* expires_at = _now() + ttl_seconds if ttl_seconds is not None else None
ExpiresAt(t, ttl) == IF ttl # None THEN t + ttl ELSE None

ExpiredLate(row, t) == row.expires_at # None /\ row.expires_at < t

\* expires_at is not None and int(expires_at) <= _now()
Expired(row, t) == row.expires_at # None /\ row.expires_at <= t

\* What get_flag returns for the row it selected: None for no row or an
\* expired one, else (value, expires_at).
GetFlagResult(row, t) == IF row.present /\ ~Expired(row, t) THEN row ELSE NoRow

\* The row get_flag leaves behind: an expired row is deleted.
GetFlagRow(row, t) == IF row.present /\ Expired(row, t) THEN NoRow ELSE row

\* INSERT ... ON CONFLICT(key) DO UPDATE: the row set_flag leaves at time t
SetFlagRow(v, ttl, t) == [present |-> TRUE, value |-> v, expires_at |-> ExpiresAt(t, ttl)]

SetFlag(k, v, ttl) ==
    /\ flags' = [flags EXCEPT ![k] = SetFlagRow(v, ttl, now)]
    /\ flagSet' = [flagSet EXCEPT ![k] = [at |-> now, ttl |-> ttl]]
    /\ lastGet' = NoGet
    /\ UNCHANGED <<flagRead, now, eventVars, fsVars, notifierVars, dispatchVars, monitorVars>>
    /\ UNCHANGED detVars

GetFlag(k) ==
    /\ flags' = [flags EXCEPT ![k] = GetFlagRow(flags[k], now)]
    /\ lastGet' = [op |-> "get_flag", key |-> k, at |-> now, before |-> flags[k],
                   result |-> GetFlagResult(flags[k], now), remaining |-> None]
    /\ UNCHANGED <<flagRead, now, flagSet, eventVars, fsVars, notifierVars, dispatchVars, monitorVars>>
    /\ UNCHANGED detVars

ClearFlag(k) ==
    /\ flags' = [flags EXCEPT ![k] = NoRow]
    /\ flagSet' = [flagSet EXCEPT ![k] = NeverSet]
    /\ lastGet' = NoGet
    /\ UNCHANGED <<flagRead, now, eventVars, fsVars, notifierVars, dispatchVars, monitorVars>>
    /\ UNCHANGED detVars

\* max(0, int(expires_at) - _now()), None without a row or without an expiry
RemainingOf(res, t) ==
    IF ~res.present \/ res.expires_at = None THEN None ELSE Max(0, res.expires_at - t)

RemainingSeconds(k) ==
    /\ flags' = [flags EXCEPT ![k] = GetFlagRow(flags[k], now)]
    /\ lastGet' = [op |-> "remaining_seconds", key |-> k, at |-> now, before |-> flags[k],
                   result |-> GetFlagResult(flags[k], now),
                   remaining |-> RemainingOf(GetFlagResult(flags[k], now), now)]
    /\ UNCHANGED <<flagRead, now, flagSet, eventVars, fsVars, notifierVars, dispatchVars, monitorVars>>
    /\ UNCHANGED detVars

\* No get_flag call in progress.  pc: "idle", or "selected" between the
\* SELECT and what follows it; row: what the SELECT returned; deleted, at:
\* history, the row the last DELETE of a get_flag removed and when.
NoFlagRead == [pc |-> "idle", key |-> "", row |-> NoRow, deleted |-> NoRow, at |-> 0]

InitFlags ==
    /\ flags = [k \in FlagKeys |-> NoRow]
    /\ lastGet = NoGet
    /\ flagRead = NoFlagRead
    /\ flagSet = [k \in FlagKeys |-> NeverSet]

NextFlags ==
    \/ Tick
    \/ \E w \in FlagWrites : SetFlag(w[1], w[2], w[3])
    \/ \E k \in FlagKeys : GetFlag(k)
    \/ \E k \in FlagKeys : ClearFlag(k)
    \/ \E k \in FlagKeys : RemainingSeconds(k)

\* C9: a get_flag on a flag that has an expiry returns (value, expires_at)
\* and leaves the row as it was when made before expires_at, and deletes
\* the row and returns None when made at or after expires_at; so a flag
\* set with a ttl is absent for every read made ttl seconds or more after
\* the set_flag, with no clear_flag in between.
C9_GetFlagExpiresLazily ==
    /\ (lastGet.op # "" /\ lastGet.before.present /\ lastGet.before.expires_at # None) =>
          IF lastGet.at < lastGet.before.expires_at
          THEN /\ lastGet.result = lastGet.before
               /\ flags[lastGet.key] = lastGet.before
          ELSE /\ ~lastGet.result.present
               /\ ~flags[lastGet.key].present
    /\ \A k \in FlagKeys :
          (lastGet.op # "" /\ lastGet.key = k /\ flagSet[k].ttl # None) =>
              (lastGet.result.present <=> lastGet.at < flagSet[k].at + flagSet[k].ttl)

\* A mute set with a positive ttl was still in the table, unswept, when a
\* read made exactly at its expiry found it, deleted it and returned None.
C9_Witness ==
    /\ lastGet.op = "get_flag"
    /\ lastGet.key = "mute"
    /\ lastGet.before.present
    /\ flagSet["mute"].ttl # None
    /\ flagSet["mute"].ttl > 0
    /\ lastGet.at = lastGet.before.expires_at
    /\ ~lastGet.result.present
    /\ ~flags["mute"].present

(***************************************************************************)
(* get_flag statement by statement, other callers between its statements.  *)
(* The SELECT is a statement of its own in autocommit; its cursor is       *)
(* dropped after fetchone, so nothing of the database stays locked.  The   *)
(* DELETE begins a transaction of its own and is committed at once.        *)
(* set_flag is one INSERT and its commit.  SpecFlags above takes the calls *)
(* one after another.                                                      *)
(***************************************************************************)
\* get_flag: conn.execute("SELECT value, expires_at ...").fetchone()
GetFlagSelect(k) ==
    /\ flagRead.pc = "idle"
    /\ flagRead' = [flagRead EXCEPT !.pc = "selected", !.key = k, !.row = flags[k]]
    /\ UNCHANGED <<now, flags, lastGet, flagSet, eventVars, fsVars, notifierVars,
                   dispatchVars, monitorVars>>
    /\ UNCHANGED detVars

\* get_flag, after the SELECT: None for no row; for an expired row DELETE
\* FROM runtime_flags WHERE key = ?, commit and None; else the row.
GetFlagFinish ==
    /\ flagRead.pc = "selected"
    /\ LET k == flagRead.key
           row == flagRead.row
           deletes == row.present /\ Expired(row, now)
       IN  /\ flags' = IF deletes THEN [flags EXCEPT ![k] = NoRow] ELSE flags
           /\ lastGet' = [op |-> "get_flag", key |-> k, at |-> now, before |-> row,
                          result |-> GetFlagResult(row, now), remaining |-> None]
           /\ flagRead' = IF deletes
                          THEN [NoFlagRead EXCEPT !.deleted = flags[k], !.at = now]
                          ELSE [NoFlagRead EXCEPT !.deleted = flagRead.deleted,
                                                  !.at = flagRead.at]
    /\ UNCHANGED <<now, flagSet, eventVars, fsVars, notifierVars, dispatchVars, monitorVars>>
    /\ UNCHANGED detVars

\* cli.mute beside the monitor's _is_muted: db.get_flag("mute")
NextFlagRace ==
    \/ Tick
    \/ \E ttl \in 0..MaxTtl : SetFlag("mute", "1", ttl)
    \/ GetFlagSelect("mute")
    \/ GetFlagFinish

\* C38: the clean-up of a get_flag never deletes a flag that a set_flag
\* wrote with an expiry still ahead: every row a get_flag has deleted had
\* expired when it was deleted.
C38_ReaderNeverDeletesNewFlag ==
    flagRead.deleted.present => Expired(flagRead.deleted, flagRead.at)

(***************************************************************************)
(* The first-seen ledger.                                                  *)
(***************************************************************************)
FsKeys == {"sec03|root|root|apt", "sec04|nginx|80|tcp|GLOBAL", "sec04|xrdp|3389|tcp|GLOBAL"}

NoSeen == [present |-> FALSE, first_ts |-> 0, last_ts |-> 0, count |-> 0]

NoTouch == [key |-> "", ret |-> FALSE, before |-> 0]

\* INSERT INTO first_seen(key, first_ts, last_ts, count) VALUES (?, now, now, 1)
FirstSeenInsert(t) == [present |-> TRUE, first_ts |-> t, last_ts |-> t, count |-> 1]

FirstSeenReplace(row, t) ==
    [present |-> TRUE, first_ts |-> t, last_ts |-> t, count |-> row.count + 1]

\* UPDATE first_seen SET last_ts = now, count = count + 1 WHERE key = ?
FirstSeenUpdate(row, t) == [row EXCEPT !.last_ts = t, !.count = @ + 1]

FirstSeenTouch(k) ==
    /\ touches[k].n < MaxTouches
    /\ first_seen' = [first_seen EXCEPT ![k] =
           IF ~first_seen[k].present THEN FirstSeenInsert(now)
           ELSE FirstSeenUpdate(first_seen[k], now)]
    /\ lastTouch' = [key |-> k, ret |-> ~first_seen[k].present, before |-> touches[k].n]
    /\ touches' = [touches EXCEPT ![k] =
           [n |-> @.n + 1, firstAt |-> IF @.n = 0 THEN now ELSE @.firstAt, lastAt |-> now]]
    /\ UNCHANGED <<now, eventVars, flagVars, notifierVars, dispatchVars, monitorVars>>
    /\ UNCHANGED detVars

InitFirstSeen ==
    /\ first_seen = [k \in FsKeys |-> NoSeen]
    /\ touches = [k \in FsKeys |-> [n |-> 0, firstAt |-> 0, lastAt |-> 0]]
    /\ lastTouch = NoTouch

NextFirstSeen ==
    \/ Tick
    \/ \E k \in FsKeys : FirstSeenTouch(k)

\* C10: over any sequence of first_seen_touch calls, the first call for a
\* key returns true and creates its record with count 1; every later call
\* for the key returns false, adds exactly 1 to count, sets last_ts to the
\* time of the call and leaves first_ts at the time of the first call;
\* calls for other keys leave the record as it is.
C10_FirstSeenTouchCounts ==
    /\ \A k \in FsKeys :
          IF touches[k].n = 0
          THEN ~first_seen[k].present
          ELSE /\ first_seen[k].present
               /\ first_seen[k].count = touches[k].n
               /\ first_seen[k].first_ts = touches[k].firstAt
               /\ first_seen[k].last_ts = touches[k].lastAt
    /\ lastTouch.key # "" => (lastTouch.ret <=> lastTouch.before = 0)

\* A key touched three times at three different times, another key touched
\* in between: the last call returned false.
C10_Witness ==
    \E k \in FsKeys : \E o \in FsKeys \ {k} :
        /\ touches[k].n = 3
        /\ touches[o].n > 0
        /\ touches[k].firstAt < touches[k].lastAt
        /\ touches[k].firstAt < touches[o].lastAt
        /\ touches[o].lastAt < touches[k].lastAt
        /\ lastTouch.key = k
        /\ ~lastTouch.ret

(***************************************************************************)
(* DesktopNotifier: one instance, monitor._NOTIFIER, shared by the main    *)
(* thread and the six worker threads.                                      *)
(***************************************************************************)
MinInterval == 60    \* DesktopNotifier(min_interval_s=60, ...)

NThreads == 1..NumThreads

NotifyKeys == {"", "SEC-04|0.0.0.0:3389"}

\* What subprocess.run(cmd, capture_output=True, text=True, timeout=1.5) does.
RunOutcomes == {"exit0", "nonzero", "TimeoutExpired", "OSError"}

\* The environment of one notify call: <<notify-send is installed, gdbus is
\* installed, a session bus is announced, what the backend run does>>.  What
\* the code does not consult in a case is left at its first value.
BackendCases ==
    {<<TRUE, FALSE, FALSE, run>> : run \in RunOutcomes}
    \cup {<<FALSE, TRUE, TRUE, run>> : run \in RunOutcomes}
    \cup {<<FALSE, TRUE, FALSE, "exit0">>, <<FALSE, FALSE, FALSE, "exit0">>}

NtIdle == [pc |-> "idle", key |-> "", clock |-> 0, lastRead |-> 0]

NoResult == [ret |-> FALSE, throttled |-> FALSE, invoked |-> FALSE, run |-> ""]

TickNotifier ==
    /\ now < StartTime + MaxTicks * TickStep
    /\ now' = now + TickStep
    /\ UNCHANGED <<eventVars, flagVars, fsVars, notifierVars, dispatchVars, monitorVars>>
    /\ UNCHANGED detVars

NotifierLockNeverHeld == TRUE

\* with self._lock: entered only while no other thread holds the lock
NotifierLockFree == nLock = 0

\* subprocess.run returned a CompletedProcess: no check=True, so its
\* return code is not looked at; an exception from it is caught.
RunReturned(run) == run \in {"exit0", "nonzero"}

\* _notify_send: True when subprocess.run returned, False on any Exception
NotifySend(run) == RunReturned(run)

\* _gdbus_notify: False without a session bus, else as _notify_send
GdbusNotify(bus, run) == bus /\ RunReturned(run)

\* The tail of notify: notify-send if installed, else gdbus, else False.
NotifyBackend(ns, gd, bus, run) ==
    IF ns THEN NotifySend(run)
    ELSE IF gd THEN GdbusNotify(bus, run)
    ELSE FALSE

\* Whether a backend process was run at all.
BackendInvoked(ns, gd, bus) == ns \/ (gd /\ bus)

\* notify is entered; `if key and self._throttled(key)`: an empty key
\* (or None) skips the throttle.  _throttled reads now = time.time()
\* before it takes the lock.
NotifyBegin(t, k) ==
    /\ nt[t].pc = "idle"
    /\ nCalls < MaxNotifyCalls
    /\ nCalls' = nCalls + 1
    /\ nt' = [nt EXCEPT ![t] = [pc |-> IF k # "" THEN "throttle_enter" ELSE "backend",
                                key |-> k, clock |-> IF k # "" THEN now ELSE 0,
                                lastRead |-> 0]]
    /\ UNCHANGED <<now, last, nLock, passes, lastResult,
                   eventVars, flagVars, fsVars, dispatchVars, monitorVars>>
    /\ UNCHANGED detVars

\* with self._lock: last = self._last.get(key, 0.0)
ThrottleEnter(t) ==
    /\ nt[t].pc = "throttle_enter"
    /\ NotifierLockFree
    /\ nLock' = t
    /\ nt' = [nt EXCEPT ![t].pc = "throttle_decide", ![t].lastRead = last[nt[t].key]]
    /\ UNCHANGED <<now, last, nCalls, passes, lastResult,
                   eventVars, flagVars, fsVars, dispatchVars, monitorVars>>
    /\ UNCHANGED detVars

\* if (now - last) < self.min_interval_s: return True;
\* self._last[key] = now; return False -- the lock is released either way.
ThrottleDecide(t) ==
    /\ nt[t].pc = "throttle_decide"
    /\ nLock' = 0
    /\ IF nt[t].clock - nt[t].lastRead < MinInterval
       THEN /\ nt' = [nt EXCEPT ![t] = NtIdle]
            /\ lastResult' = [ret |-> FALSE, throttled |-> TRUE, invoked |-> FALSE, run |-> ""]
            /\ UNCHANGED <<last, passes>>
       ELSE /\ last' = [last EXCEPT ![nt[t].key] = nt[t].clock]
            /\ passes' = Append(passes, [key |-> nt[t].key, at |-> nt[t].clock])
            /\ nt' = [nt EXCEPT ![t].pc = "backend"]
            /\ UNCHANGED lastResult
    /\ UNCHANGED <<now, nCalls, eventVars, flagVars, fsVars, dispatchVars, monitorVars>>
    /\ UNCHANGED detVars

\* shutil.which("notify-send"), shutil.which("gdbus"), _has_session_bus()
\* and the run of the backend are the environment's.
NotifyDeliver(t, ns, gd, bus, run) ==
    /\ nt[t].pc = "backend"
    /\ nt' = [nt EXCEPT ![t] = NtIdle]
    /\ lastResult' = [ret |-> NotifyBackend(ns, gd, bus, run),
                      throttled |-> FALSE, invoked |-> BackendInvoked(ns, gd, bus),
                      run |-> IF BackendInvoked(ns, gd, bus) THEN run ELSE ""]
    /\ UNCHANGED <<now, last, nLock, nCalls, passes,
                   eventVars, flagVars, fsVars, dispatchVars, monitorVars>>
    /\ UNCHANGED detVars

InitNotifier ==
    /\ last = [k \in NotifyKeys |-> 0]
    /\ nLock = 0
    /\ nt = [t \in NThreads |-> NtIdle]
    /\ nCalls = 0
    /\ passes = <<>>
    /\ lastResult = NoResult

NextNotifier ==
    \/ TickNotifier
    \/ \E t \in NThreads, k \in NotifyKeys : NotifyBegin(t, k)
    \/ \E t \in NThreads : ThrottleEnter(t)
    \/ \E t \in NThreads : ThrottleDecide(t)
    \/ \E t \in NThreads, e \in BackendCases : NotifyDeliver(t, e[1], e[2], e[3], e[4])

\* C5: for every non-empty key, whatever the interleaving of the threads
\* calling notify, any two calls that got past the throttle did so with
\* clock readings at least min_interval_s apart; a call that did not get
\* past it returned False and ran no backend.
C5_ThrottleSpacing ==
    /\ \A i, j \in 1..Len(passes) :
          (i < j /\ passes[i].key = passes[j].key) =>
              passes[j].at - passes[i].at >= MinInterval
    /\ lastResult.throttled => (~lastResult.ret /\ ~lastResult.invoked)

\* Two calls with one key got past the throttle, and a third call with
\* that key, made in between, was throttled.
C5_Witness ==
    /\ \E i, j \in 1..Len(passes) : i < j /\ passes[i].key = passes[j].key
    /\ lastResult.throttled
    /\ nCalls = 3

\* C6, as stated: notify returns True only when a backend ran and delivered
\* the notification (exit status 0); every backend failure -- no backend
\* installed, no session bus, a timeout, a non-zero exit status -- makes it
\* return False.
C6_TrueOnlyWhenDelivered ==
    lastResult.ret => (lastResult.invoked /\ lastResult.run = "exit0")

(***************************************************************************)
(* Python exceptions, by class name.  KeyboardInterrupt derives from       *)
(* BaseException, the others from Exception.                               *)
(***************************************************************************)
Raised == {"OperationalError", "AttributeError", "TypeError", "PermissionError",
           "FileNotFoundError", "KeyboardInterrupt"}

\* except Exception
ExceptException(exc) == exc \in Raised \ {"KeyboardInterrupt"}

(***************************************************************************)
(* The hand-off of one detector result, as every loop of monitor.py does   *)
(* it: db.add_event(...), then _maybe_notify(code, severity, entity, msg). *)
(***************************************************************************)
Severities == {"INFO", "WARNING", "CRITICAL"}

\* str.upper on the severities the detectors produce
Upper(s) ==
    CASE s \in {"critical", "Critical"} -> "CRITICAL"
      [] s \in {"warning", "Warning"} -> "WARNING"
      [] s \in {"info", "Info"} -> "INFO"
      [] OTHER -> s

\* What can go wrong inside _maybe_notify: get_flag or notify raising.
NotifyFaults == {"none", "get_flag", "notify"}

FaultClass(f) == IF f = "get_flag" THEN "OperationalError" ELSE "TypeError"

IsMutedNever(row, t) == FALSE

\* _is_muted: db.get_flag("mute") is not None
IsMuted(row, t) == GetFlagResult(row, t).present

\* (severity or "").upper() != "CRITICAL": return
WantsPopup(sev) == Upper(sev) = "CRITICAL"

NoHandOff == [id |-> 0, sev |-> "", at |-> 0, mute |-> NoRow, notified |-> FALSE, raised |-> FALSE]

\* db.add_event(code=..., severity=sev, ...) returned
DispatchAddEvent(sev) ==
    /\ dpc = "idle"
    /\ nHandled < MaxEvents
    /\ events' = events \cup {[id |-> NextRowId, arg |-> sev]}
    /\ seq' = NextRowId
    /\ dcur' = [id |-> NextRowId, sev |-> sev]
    /\ dpc' = "stored"
    /\ UNCHANGED <<now, dbLock, call, completed, clears, handled, nHandled, nFaults,
                   flagVars, fsVars, notifierVars, monitorVars>>
    /\ UNCHANGED detVars

\* _maybe_notify, whole: the severity test, _is_muted (a get_flag, which
\* deletes an expired mute), the call of _NOTIFIER.notify, all inside
\* try / except Exception: return.
DispatchMaybeNotify(fault) ==
    /\ dpc = "stored"
    /\ LET reads == WantsPopup(dcur.sev) /\ fault # "get_flag"
           muted == IsMuted(flags["mute"], now)
           calls == reads /\ ~muted
           raises == WantsPopup(dcur.sev) /\ (fault = "get_flag" \/ (fault = "notify" /\ calls))
       IN /\ flags' = IF reads THEN [flags EXCEPT !["mute"] = GetFlagRow(@, now)] ELSE flags
          /\ handled' = [id |-> dcur.id, sev |-> dcur.sev, at |-> now, mute |-> flags["mute"],
                         notified |-> calls, raised |-> raises]
          /\ nFaults' = IF raises THEN nFaults + 1 ELSE nFaults
          /\ dpc' = IF raises /\ ~ExceptException(FaultClass(fault)) THEN "crashed" ELSE "idle"
    /\ nHandled' = nHandled + 1
    /\ UNCHANGED <<flagRead, now, dcur, lastGet, flagSet, eventVars, fsVars, notifierVars, monitorVars>>
    /\ UNCHANGED detVars

InitDispatch ==
    /\ dpc = "idle"
    /\ dcur = [id |-> 0, sev |-> ""]
    /\ handled = NoHandOff
    /\ nHandled = 0
    /\ nFaults = 0

NextDispatch ==
    \/ Tick
    \/ \E ttl \in 0..MaxTtl : SetFlag("mute", "1", ttl)
    \/ \E sev \in Severities : DispatchAddEvent(sev)
    \/ \E f \in NotifyFaults : DispatchMaybeNotify(f)

\* A mute row that is in force at time t: present, and without expiry or
\* with an expiry still ahead.
MuteInForce(row, t) == row.present /\ (row.expires_at = None \/ row.expires_at > t)

\* C4: _NOTIFIER.notify is called only for an event of severity CRITICAL
\* and only if the mute flag is absent or expired at that moment; the event
\* is in the store before _maybe_notify runs, muted or not; and a failure
\* inside _maybe_notify leaves the loop able to hand off the next event.
C4_NotifyOnlyCriticalUnmuted ==
    /\ handled.notified =>
          (handled.sev = "CRITICAL" /\ ~MuteInForce(handled.mute, handled.at))
    /\ nHandled > 0 => [id |-> handled.id, arg |-> handled.sev] \in events
    /\ dpc = "stored" => [id |-> dcur.id, arg |-> dcur.sev] \in events
    /\ dpc # "crashed"
    /\ Cardinality(events) = nHandled + (IF dpc = "stored" THEN 1 ELSE 0)

\* After a failure inside _maybe_notify for an earlier event, a CRITICAL
\* event was stored, and not notified because a mute with a ttl was in force.
C4_Witness ==
    /\ nFaults > 0
    /\ ~handled.raised
    /\ handled.sev = "CRITICAL"
    /\ MuteInForce(handled.mute, handled.at)
    /\ handled.mute.expires_at > handled.at
    /\ ~handled.notified
    /\ [id |-> handled.id, arg |-> handled.sev] \in events

(***************************************************************************)
(* The monitor: cli.run sets monitor_state and calls run_authlog_security, *)
(* which starts six daemon threads and tails the log in the main thread.   *)
(***************************************************************************)
Workers == {"sec04", "sec05", "temp", "disk", "svc", "mem"}

\* The order of the join calls in the finally clause.
JoinOrder == <<"sec04", "sec05", "temp", "disk", "svc", "mem">>

\* det.poll() before the loop, outside any try: _sec04_loop, _sec05_loop, _hea03_loop
BaselineUnguarded == {"sec04", "sec05", "disk"}

\* the baseline poll inside try / except Exception: pass: _hea04_loop, _hea05_loop
BaselineGuarded == {"svc", "mem"}

\* What one poll of a worker, with the hand-off of its events, can end in:
\* "ok", the detector or a sampler raising, db.add_event raising.
\* ListeningPortDetector.poll begins with _prune_if_needed, which calls
\* db.prune_first_seen whenever 600 s have passed since _last_prune_ts (0 at
\* construction); db.py defines no prune_first_seen, so the call raises
\* AttributeError before _last_prune_ts is set, in every poll.
PollOutcomes(w) ==
    IF w = "sec04" THEN {"AttributeError"}
    ELSE {"ok", "AttributeError", "OperationalError"}

Finished(w) == wpc[w] \in {"done", "dead"}

\* The baseline poll a worker makes before its loop.
WorkerBaseline(w, out) ==
    /\ wpc[w] = "baseline"
    /\ wpc' = [wpc EXCEPT ![w] =
           IF out = "ok" \/ (w \in BaselineGuarded /\ ExceptException(out))
           THEN "check" ELSE "dead"]
    /\ UNCHANGED <<now, mainPc, pending, tailFault, leftWith, stop, joined, joinTimer,
                   eventVars, flagVars, fsVars, notifierVars, dispatchVars>>
    /\ UNCHANGED detVars

\* while not stop.is_set(): as the loop is entered
WorkerCheck(w) ==
    /\ wpc[w] = "check"
    /\ wpc' = [wpc EXCEPT ![w] = IF stop THEN "done" ELSE "poll"]
    /\ UNCHANGED <<now, mainPc, pending, tailFault, leftWith, stop, joined, joinTimer,
                   eventVars, flagVars, fsVars, notifierVars, dispatchVars>>
    /\ UNCHANGED detVars

\* The body of the loop: try: poll, add_event, _maybe_notify, echo;
\* except Exception: echo; then stop.wait(interval_s) begins.
WorkerPoll(w, out) ==
    /\ wpc[w] = "poll"
    /\ wpc' = [wpc EXCEPT ![w] =
           IF out = "ok" \/ ExceptException(out) THEN "wait" ELSE "dead"]
    /\ UNCHANGED <<now, mainPc, pending, tailFault, leftWith, stop, joined, joinTimer,
                   eventVars, flagVars, fsVars, notifierVars, dispatchVars>>
    /\ UNCHANGED detVars

WaitReturnsAfterInterval(over) == over

\* stop.wait(interval_s) returns when stop is set or the interval is over.
WaitReturns(over) == stop \/ over

\* stop.wait returns, the interval being over or not, and the loop tests
\* `not stop.is_set()` again.
WorkerWake(w, over) ==
    /\ wpc[w] = "wait"
    /\ WaitReturns(over)
    /\ wpc' = [wpc EXCEPT ![w] = IF stop THEN "done" ELSE "poll"]
    /\ UNCHANGED <<now, mainPc, pending, tailFault, leftWith, stop, joined, joinTimer,
                   eventVars, flagVars, fsVars, notifierVars, dispatchVars>>
    /\ UNCHANGED detVars

\* cli.run: set_state("RUNNING")
CliSetRunning ==
    /\ mainPc = "cli_run"
    /\ flags' = [flags EXCEPT !["monitor_state"] = SetFlagRow("RUNNING", None, now)]
    /\ flagSet' = [flagSet EXCEPT !["monitor_state"] = [at |-> now, ttl |-> None]]
    /\ lastGet' = NoGet
    /\ mainPc' = "run_start"
    /\ UNCHANGED <<flagRead, now, pending, tailFault, leftWith, stop, joined,
                   joinTimer, wpc,
                   eventVars, fsVars, notifierVars, dispatchVars>>
    /\ UNCHANGED detVars

\* run_authlog_security up to its try: init_db, the detectors, the six
\* threads created and started, time.sleep(0.2).
RunStart ==
    /\ mainPc = "run_start"
    /\ wpc' = [w \in Workers |-> IF w = "temp" THEN "check" ELSE "baseline"]
    /\ mainPc' = "tail_open"
    /\ UNCHANGED <<now, pending, tailFault, leftWith, stop, joined, joinTimer,
                   eventVars, flagVars, fsVars, notifierVars, dispatchVars>>
    /\ UNCHANGED detVars

\* The except clauses of the try around the tailing loop: what is still
\* being raised once they have run ("" for nothing).  PermissionError is
\* echoed and re-raised, KeyboardInterrupt is swallowed, anything else has
\* no handler.
TailHandlersSwallow(exc) == ""

TailHandlers(exc) ==
    CASE exc = "PermissionError" -> exc
      [] exc = "KeyboardInterrupt" -> ""
      [] OTHER -> exc

\* An exception leaves the body of the try: the handlers, then finally.
LeaveTail(exc) ==
    /\ tailFault' = exc
    /\ pending' = TailHandlers(exc)
    /\ mainPc' = "finally"

\* tail_file opens the log: Path.open raises for a file it may not read.
TailOpen(out) ==
    /\ mainPc = "tail_open"
    /\ IF out = "ok"
       THEN mainPc' = "tail_wait" /\ UNCHANGED <<tailFault, pending>>
       ELSE LeaveTail(out)
    /\ UNCHANGED <<now, leftWith, stop, joined, joinTimer,
                   wpc,
                   eventVars, flagVars, fsVars, notifierVars, dispatchVars>>
    /\ UNCHANGED detVars

\* One line, through the three detectors: an exception of handle_line is
\* caught (except Exception: continue); db.add_event stands outside that
\* try, so what it raises leaves the loop; _maybe_notify raises nothing.
TailLine(out) ==
    /\ mainPc = "tail_wait"
    /\ IF out \in {"ok", "handle_line raised"}
       THEN UNCHANGED <<mainPc, tailFault, pending>>
       ELSE LeaveTail(out)
    /\ UNCHANGED <<now, leftWith, stop, joined, joinTimer,
                   wpc,
                   eventVars, flagVars, fsVars, notifierVars, dispatchVars>>
    /\ UNCHANGED detVars

\* CTRL+C while the main thread tails the log.
TailInterrupt ==
    /\ mainPc \in {"tail_open", "tail_wait"}
    /\ LeaveTail("KeyboardInterrupt")
    /\ UNCHANGED <<now, leftWith, stop, joined, joinTimer,
                   wpc,
                   eventVars, flagVars, fsVars, notifierVars, dispatchVars>>
    /\ UNCHANGED detVars

\* finally: stop.set()
FinallySetStop ==
    /\ mainPc = "finally"
    /\ stop' = TRUE
    /\ joinTimer' = FALSE
    /\ mainPc' = "join"
    /\ UNCHANGED <<now, pending, tailFault, leftWith, joined,
                   wpc,
                   eventVars, flagVars, fsVars, notifierVars, dispatchVars>>
    /\ UNCHANGED detVars

\* The 2 s of the join in progress have passed.
JoinTimeout ==
    /\ mainPc = "join"
    /\ ~joinTimer
    /\ joinTimer' = TRUE
    /\ UNCHANGED <<now, mainPc, pending, tailFault, leftWith, stop, joined,
                   wpc,
                   eventVars, flagVars, fsVars, notifierVars, dispatchVars>>
    /\ UNCHANGED detVars

NextToJoin == JoinOrder[Cardinality(joined) + 1]

\* t.join(timeout=2) returns: the thread has ended, or the timeout has passed.
JoinReturns(w) == Finished(w) \/ joinTimer

\* One join returns; after the sixth, control leaves run_authlog_security,
\* by return or with the pending exception.
Join ==
    /\ mainPc = "join"
    /\ JoinReturns(NextToJoin)
    /\ joined' = joined \cup {NextToJoin}
    /\ joinTimer' = FALSE
    /\ IF joined' = Workers
       THEN /\ mainPc' = "left"
            /\ leftWith' = IF pending = "" THEN "returned" ELSE pending
       ELSE UNCHANGED <<mainPc, leftWith>>
    /\ UNCHANGED <<now, pending, tailFault, stop,
                   wpc,
                   eventVars, flagVars, fsVars, notifierVars, dispatchVars>>
    /\ UNCHANGED detVars

\* cli.run: finally: set_state("STOPPED")
CliSetStopped ==
    /\ mainPc = "left"
    /\ flags' = [flags EXCEPT !["monitor_state"] = SetFlagRow("STOPPED", None, now)]
    /\ flagSet' = [flagSet EXCEPT !["monitor_state"] = [at |-> now, ttl |-> None]]
    /\ lastGet' = NoGet
    /\ mainPc' = "exited"
    /\ UNCHANGED <<flagRead, now, pending, tailFault, leftWith, stop, joined,
                   joinTimer, wpc,
                   eventVars, fsVars, notifierVars, dispatchVars>>
    /\ UNCHANGED detVars

InitMonitor ==
    /\ mainPc = "cli_run"
    /\ pending = ""
    /\ tailFault = ""
    /\ leftWith = ""
    /\ stop = FALSE
    /\ joined = {}
    /\ joinTimer = FALSE
    /\ wpc = [w \in Workers |-> "unstarted"]

NextMonitor ==
    \/ CliSetRunning
    \/ RunStart
    \/ \E out \in {"ok", "PermissionError"} : TailOpen(out)
    \/ \E out \in {"ok", "handle_line raised", "OperationalError"} : TailLine(out)
    \/ TailInterrupt
    \/ FinallySetStop
    \/ JoinTimeout
    \/ Join
    \/ CliSetStopped
    \/ \E w \in Workers : \E out \in PollOutcomes(w) : WorkerBaseline(w, out)
    \/ \E w \in Workers : WorkerCheck(w)
    \/ \E w \in Workers : \E out \in PollOutcomes(w) : WorkerPoll(w, out)
    \/ \E w \in Workers, over \in BOOLEAN : WorkerWake(w, over)

\* cli.get_state: the value of 'monitor_state', "STOPPED" when get_flag
\* returns None.
GetState ==
    LET data == GetFlagResult(flags["monitor_state"], now)
    IN  IF data.present THEN data.value ELSE "STOPPED"

InRun == mainPc \in {"run_start", "tail_open", "tail_wait", "finally", "join", "left"}

\* C2: a storage failure raised by add_event is caught within the iteration
\* that caused it, in the log-tailing loop as in the pollers, so that it
\* never makes the tailing loop of run_authlog_security end.
C2_StorageFailureNeverEndsTailing == tailFault # "OperationalError"

\* C3: an exception raised by a detector's poll, the baseline poll
\* included, never terminates the worker that made the poll: no poller
\* thread ends by an exception.
C3_PollExceptionNeverKillsWorker == \A w \in Workers : wpc[w] # "dead"

BootTime == 1000000   \* the clock reads this when the detectors are created
DetStep == 30         \* seconds the clock advances in one step
MaxDetTicks == 3      \* steps of the clock in one behaviour of a line detector
MaxLines01 == 13      \* lines SEC-01 handles in one behaviour

\* The clock advances by d, up to limit.
Advance(d, limit) ==
    /\ clock + d <= limit
    /\ clock' = clock + d
    /\ UNCHANGED <<storeVars, sec01Vars, sec02Vars, sec03Vars, sec04Vars, sec05Vars, tempVars, heaVars>>

DetTick == Advance(DetStep, BootTime + MaxDetTicks * DetStep)

(***************************************************************************)
(* SEC-01, SshBruteForceDetector.  An IPv4 address is its four octets.     *)
(***************************************************************************)
window_s == 60
warn_attempts == 5
crit_attempts == 12
info_cooldown_s == 120
alert_cooldown_s == 60

Sec01Ips == {<<203, 0, 113, 5>>, <<192, 168, 1, 7>>, <<127, 0, 0, 1>>}

\* _parse_fail gives (ip, user) for a failure line, None for any other line.
Sec01Lines == {[fail |-> TRUE, ip |-> i] : i \in Sec01Ips} \cup {[fail |-> FALSE, ip |-> <<>>]}

\* _ip_scope: 127.*, then 10.* and 192.168.*, then 172.16-31.*, then 169.254.*
IpScope(ip) ==
    IF ip[1] = 127 THEN "LOCAL"
    ELSE IF ip[1] = 10 \/ (ip[1] = 192 /\ ip[2] = 168) THEN "LAN"
    ELSE IF ip[1] = 172 /\ 16 <= ip[2] /\ ip[2] <= 31 THEN "LAN"
    ELSE IF ip[1] = 169 /\ ip[2] = 254 THEN "LAN"
    ELSE "GLOBAL"

\* _downgrade_by_scope
DowngradeByScope(sev, scope) ==
    IF scope = "LOCAL" THEN "INFO"
    ELSE IF scope = "LAN" /\ sev = "CRITICAL" THEN "WARNING"
    ELSE sev

\* _Bucket(ts=[]), and a key that _by_ip does not hold yet
NewBucket == [known |-> FALSE, ts |-> <<>>, last_info_emit |-> 0, last_alert_emit |-> 0]

Sec01PruneStrict(ts, t) == SelectSeq(ts, LAMBDA x : x > t - window_s)

\* _prune: keep only timestamps >= now - window_s
Sec01Prune(ts, t) == SelectSeq(ts, LAMBDA x : x >= t - window_s)

AlertDueAlways(b, t) == TRUE

\* (now - b.last_alert_emit) >= self.alert_cooldown_s
AlertDue(b, t) == t - b.last_alert_emit >= alert_cooldown_s

\* (now - b.last_info_emit) >= self.info_cooldown_s
InfoDue(b, t) == t - b.last_info_emit >= info_cooldown_s

Sec01Nothing == [sev |-> "", path |-> "", threshold |-> ""]

\* The ALERT path for the threshold reached: one cooldown, last_alert_emit,
\* serves both thresholds.
Sec01Alert(b, threshold, scope, t) ==
    IF AlertDue(b, t)
    THEN [bucket |-> [b EXCEPT !.last_alert_emit = t],
          ret |-> [sev |-> DowngradeByScope(threshold, scope), path |-> "alert",
                   threshold |-> threshold]]
    ELSE [bucket |-> b, ret |-> Sec01Nothing]

\* handle_line on a failure line of ip at time t, the bucket of ip being b0.
Sec01Handle(b0, ip, t) ==
    LET b == [b0 EXCEPT !.known = TRUE, !.ts = Sec01Prune(Append(b0.ts, t), t)]
        count == Len(b.ts)
        scope == IpScope(ip)
    IN  IF count >= crit_attempts THEN Sec01Alert(b, "CRITICAL", scope, t)
        ELSE IF count >= warn_attempts THEN Sec01Alert(b, "WARNING", scope, t)
        ELSE IF InfoDue(b, t)
             THEN [bucket |-> [b EXCEPT !.last_info_emit = t],
                   ret |-> [sev |-> "INFO", path |-> "info", threshold |-> ""]]
             ELSE [bucket |-> b, ret |-> Sec01Nothing]

NoLine01 == [fail |-> FALSE, ip |-> <<>>, at |-> 0, count |-> 0, sinceAlert |-> 0,
             sev |-> "", path |-> "", threshold |-> ""]

\* SshBruteForceDetector.handle_line(line).  The bucket of one IP is never
\* read or written for a line of another, so the failure lines of one
\* behaviour all come from one source IP.
Sec01HandleLine(line) ==
    /\ sec01_n < MaxLines01
    /\ line.fail => \A i \in Sec01Ips : sec01_by_ip[i].known => i = line.ip
    /\ sec01_n' = sec01_n + 1
    /\ IF ~line.fail
       THEN /\ sec01_out' = [NoLine01 EXCEPT !.at = clock]
            /\ UNCHANGED <<sec01_by_ip, sec01_alerts>>
       ELSE LET r == Sec01Handle(sec01_by_ip[line.ip], line.ip, clock)
            IN  /\ sec01_by_ip' = [sec01_by_ip EXCEPT ![line.ip] = r.bucket]
                /\ sec01_out' = [fail |-> TRUE, ip |-> line.ip, at |-> clock,
                                 count |-> Len(r.bucket.ts),
                                 sinceAlert |-> clock - sec01_by_ip[line.ip].last_alert_emit,
                                 sev |-> r.ret.sev, path |-> r.ret.path,
                                 threshold |-> r.ret.threshold]
                /\ sec01_alerts' =
                     IF r.ret.path = "alert"
                     THEN [sec01_alerts EXCEPT ![line.ip] = Append(@, [at |-> clock, sev |-> r.ret.sev])]
                     ELSE sec01_alerts
    /\ UNCHANGED <<clock, storeVars, sec02Vars, sec03Vars, sec04Vars, sec05Vars, tempVars, heaVars>>

InitSec01 ==
    /\ sec01_by_ip = [i \in Sec01Ips |-> NewBucket]
    /\ sec01_out = NoLine01
    /\ sec01_alerts = [i \in Sec01Ips |-> <<>>]
    /\ sec01_n = 0

NextSec01 ==
    \/ DetTick
    \/ \E line \in Sec01Lines : Sec01HandleLine(line)

\* C11: for the failure lines of one source IP the WARNING and CRITICAL
\* thresholds share one cooldown: any two threshold alerts for an IP are at
\* least alert_cooldown_s apart, and a failure that reaches a threshold
\* inside the cooldown returns no event; the fifth failure inside the
\* window, with no alert in the last alert_cooldown_s, returns the
\* WARNING-threshold alert (WARNING for a GLOBAL source), and the sixth,
\* inside the cooldown, returns nothing.
C11_OneAlertPerCooldown ==
    /\ \A ip \in Sec01Ips : \A i, j \in 1..Len(sec01_alerts[ip]) :
          i < j => sec01_alerts[ip][j].at - sec01_alerts[ip][i].at >= alert_cooldown_s
    /\ (sec01_out.fail /\ sec01_out.count >= warn_attempts
          /\ sec01_out.sinceAlert < alert_cooldown_s) => sec01_out.sev = ""
    /\ (sec01_out.fail /\ sec01_out.count = warn_attempts
          /\ sec01_out.sinceAlert >= alert_cooldown_s)
        => /\ sec01_out.path = "alert"
           /\ sec01_out.threshold = "WARNING"
           /\ IpScope(sec01_out.ip) = "GLOBAL" => sec01_out.sev = "WARNING"

\* C11 witness: a global IP made six failures at one clock reading; the
\* fifth returned the only WARNING, the sixth returned nothing.
C11_Witness ==
    /\ sec01_out.fail
    /\ sec01_out.ip = <<203, 0, 113, 5>>
    /\ sec01_out.count = warn_attempts + 1
    /\ sec01_out.sev = ""
    /\ sec01_out.sinceAlert = 0
    /\ Len(sec01_alerts[sec01_out.ip]) = 1
    /\ sec01_alerts[sec01_out.ip][1].sev = "WARNING"

\* C12: a threshold alert of SEC-01 is emitted one step lower when the
\* source IP is LAN (CRITICAL as WARNING, WARNING as INFO), as INFO when it
\* is LOCAL, and unchanged when it is GLOBAL.
C12_SeverityLoweredByScope ==
    sec01_out.path = "alert" =>
        sec01_out.sev =
            IF IpScope(sec01_out.ip) = "LOCAL" THEN "INFO"
            ELSE IF IpScope(sec01_out.ip) = "LAN"
                 THEN (IF sec01_out.threshold = "CRITICAL" THEN "WARNING" ELSE "INFO")
                 ELSE sec01_out.threshold

(***************************************************************************)
(* SEC-02, SshSuccessAfterFailsDetector.                                   *)
(***************************************************************************)
FAIL_WINDOW_SEC == 120
SUCCESS_WINDOW_SEC == 60
CRIT_THRESHOLD == 3
COOLDOWN_FAIL_SEC == 60

MaxLines02 == 6       \* lines SEC-02 handles in one behaviour

Sec02Ips == {<<8, 8, 8, 8>>, <<192, 168, 1, 7>>}

\* What RE_SUCCESS and RE_FAILED find in a line: an sshd line matches one of
\* them, a line with text of both kinds matches both, other lines neither.
Sec02Lines ==
    {[succ |-> s, fail |-> f, ip |-> i] :
        s \in BOOLEAN, f \in {TRUE}, i \in Sec02Ips}
    \cup {[succ |-> TRUE, fail |-> FALSE, ip |-> i] : i \in Sec02Ips}
    \cup {[succ |-> FALSE, fail |-> FALSE, ip |-> <<>>]}

\* ip_is_lan: loopback, LAN_NETS, ipaddress's is_private
IpIsLan(ip) ==
    \/ ip[1] = 127
    \/ ip[1] = 10
    \/ ip[1] = 172 /\ 16 <= ip[2] /\ ip[2] <= 31
    \/ ip[1] = 192 /\ ip[2] = 168
    \/ ip[1] = 100 /\ 64 <= ip[2] /\ ip[2] <= 127
    \/ ip[1] = 169 /\ ip[2] = 254
    \/ ip[1] = 0
    \/ ip[1] = 192 /\ ip[2] = 0 /\ ip[3] \in {0, 2}
    \/ ip[1] = 198 /\ ip[2] \in {18, 19}
    \/ ip[1] = 198 /\ ip[2] = 51 /\ ip[3] = 100
    \/ ip[1] = 203 /\ ip[2] = 0 /\ ip[3] = 113
    \/ ip[1] >= 240

\* downgrade_severity_for_lan
DowngradeSeverityForLan(sev, is_lan) ==
    IF ~is_lan THEN sev
    ELSE IF sev = "CRITICAL" THEN "WARNING"
    ELSE "INFO"

\* _prune / _prune_deque: while q and (now - q[0]) > window: q.popleft()
RECURSIVE PruneDeque(_, _, _)
PruneDeque(q, window, t) ==
    IF q # <<>> /\ t - Head(q) > window THEN PruneDeque(Tail(q), window, t) ELSE q

NoDeque == [known |-> FALSE, q |-> <<>>]

EnoughFailsAny(q) == TRUE

\* len(q_fail) >= CRIT_THRESHOLD
EnoughFails(q) == Len(q) >= CRIT_THRESHOLD

\* The success branch of handle_line: the detector's maps after it, and the
\* severity returned ("" when control goes on to the failure branch or
\* None is returned; done tells which).
Sec02Success(ip, t) ==
    LET succ == [sec02_successes EXCEPT ![ip] =
                    [known |-> TRUE, q |-> PruneDeque(Append(@.q, t), SUCCESS_WINDOW_SEC, t)]]
        qf == PruneDeque(sec02_failures[ip].q, FAIL_WINDOW_SEC, t)
        sev == DowngradeSeverityForLan("CRITICAL", IpIsLan(ip))
    IN  IF Len(succ[ip].q) >= 1 /\ sec02_failures[ip].known
        THEN LET fails == [sec02_failures EXCEPT ![ip].q = qf]
             IN  IF EnoughFails(qf)
                 THEN IF t - sec02_last_emitted[<<ip, sev>>] < COOLDOWN_FAIL_SEC
                      THEN [succs |-> succ, fails |-> fails, last |-> sec02_last_emitted,
                            sev |-> "", done |-> TRUE]
                      ELSE [succs |-> succ, fails |-> fails,
                            last |-> [sec02_last_emitted EXCEPT ![<<ip, sev>>] = t],
                            sev |-> sev, done |-> TRUE]
                 ELSE [succs |-> succ, fails |-> fails, last |-> sec02_last_emitted,
                       sev |-> "", done |-> FALSE]
        ELSE [succs |-> succ, fails |-> sec02_failures, last |-> sec02_last_emitted,
              sev |-> "", done |-> FALSE]

\* The failure lines of ip, recorded in the history, of the last
\* FAIL_WINDOW_SEC seconds before t.
RecentFailures(ip, t) ==
    Cardinality({i \in 1..Len(sec02_hist[ip]) : t - sec02_hist[ip][i] <= FAIL_WINDOW_SEC})

NoLine02 == [succ |-> FALSE, fail |-> FALSE, ip |-> <<>>, sev |-> "", recent |-> 0]

\* SshSuccessAfterFailsDetector.handle_line(line).  The deques and the
\* cooldown of one IP are never read or written for a line of another, so
\* the sshd lines of one behaviour all come from one source IP.
Sec02HandleLine(line) ==
    /\ sec02_n < MaxLines02
    /\ (line.succ \/ line.fail) =>
        \A i \in Sec02Ips :
            (sec02_failures[i].known \/ sec02_successes[i].known) => i = line.ip
    /\ sec02_n' = sec02_n + 1
    /\ IF ~line.succ /\ ~line.fail
       THEN /\ sec02_out' = NoLine02
            /\ UNCHANGED <<sec02_failures, sec02_successes, sec02_last_emitted, sec02_hist>>
       ELSE LET s == IF line.succ THEN Sec02Success(line.ip, clock)
                     ELSE [succs |-> sec02_successes, fails |-> sec02_failures,
                           last |-> sec02_last_emitted, sev |-> "", done |-> FALSE]
                record == line.fail /\ ~s.done
            IN  /\ sec02_successes' = s.succs
                /\ sec02_last_emitted' = s.last
                /\ sec02_failures' =
                     IF record
                     THEN [s.fails EXCEPT ![line.ip] =
                             [known |-> TRUE,
                              q |-> PruneDeque(Append(@.q, clock), FAIL_WINDOW_SEC, clock)]]
                     ELSE s.fails
                /\ sec02_hist' =
                     IF record THEN [sec02_hist EXCEPT ![line.ip] = Append(@, clock)]
                     ELSE sec02_hist
                /\ sec02_out' = [succ |-> line.succ, fail |-> line.fail, ip |-> line.ip,
                                 sev |-> s.sev, recent |-> RecentFailures(line.ip, clock)]
    /\ UNCHANGED <<clock, storeVars, sec01Vars, sec03Vars, sec04Vars, sec05Vars, tempVars, heaVars>>

\* A minute passes.
Sec02Tick == Advance(2 * DetStep, BootTime + MaxDetTicks * 2 * DetStep)

InitSec02 ==
    /\ sec02_failures = [i \in Sec02Ips |-> NoDeque]
    /\ sec02_successes = [i \in Sec02Ips |-> NoDeque]
    /\ sec02_last_emitted = [k \in Sec02Ips \X {"CRITICAL", "WARNING"} |-> 0]
    /\ sec02_hist = [i \in Sec02Ips |-> <<>>]
    /\ sec02_out = NoLine02
    /\ sec02_n = 0

NextSec02 ==
    \/ Sec02Tick
    \/ \E line \in Sec02Lines : Sec02HandleLine(line)

\* C13: whatever the sequence of lines, SEC-02 returns an event only for a
\* login-success line, and only when at least CRIT_THRESHOLD failure lines
\* of the same source IP were recorded in the FAIL_WINDOW_SEC seconds before
\* it; a line that is not a success line returns nothing, and so does a
\* success from an IP without recorded failures.
C13_EmitsOnlyOnSuccessAfterFails ==
    /\ sec02_out.sev # "" =>
          /\ sec02_out.succ
          /\ sec02_out.recent >= CRIT_THRESHOLD
    /\ ~sec02_out.succ => sec02_out.sev = ""
    /\ (sec02_out.succ /\ sec02_out.recent = 0) => sec02_out.sev = ""

\* C13 witness: a success line of a global IP that made three failures in
\* the window returned CRITICAL, after some failures of that IP had aged out.
C13_Witness ==
    /\ sec02_out.succ
    /\ sec02_out.sev = "CRITICAL"
    /\ sec02_out.recent >= CRIT_THRESHOLD
    /\ Len(sec02_hist[sec02_out.ip]) > sec02_out.recent

\* C30: a success line of an IP with at least CRIT_THRESHOLD failure lines
\* recorded in the 600 s before it returns an event, unless a cooldown of
\* that IP holds it back: no success line of an IP for which nothing was
\* ever returned, with that many failures in those 600 s, returns nothing.
C30_SuccessWithin600sOfFailuresEmits ==
    ~ /\ sec02_out.succ /\ ~sec02_out.fail
      /\ sec02_out.sev = ""
      /\ Cardinality({i \in 1..Len(sec02_hist[sec02_out.ip]) :
                         clock - sec02_hist[sec02_out.ip][i] <= 600}) >= CRIT_THRESHOLD
      /\ \A sev \in {"CRITICAL", "WARNING"} : sec02_last_emitted[<<sec02_out.ip, sev>>] = 0

(***************************************************************************)
(* SEC-03, SudoActivityDetector.                                           *)
(***************************************************************************)
FAIL_WARN_WINDOW == 60
FAIL_CRIT_WINDOW == 120
FAIL_WARN_TH == 2
FAIL_CRIT_TH == 4
COOLDOWN_INFO == 30
COOLDOWN_WARN == 60
COOLDOWN_CRIT == 120

MaxLines03 == 5       \* lines SEC-03 handles in one behaviour

\* COMMAND= texts, each with its whitespace-normalised form and with what
\* the CRIT_PATTERNS and the WARN_PATTERNS find in it.
Sec03Cmds ==
    {[text |-> "/usr/bin/apt update", norm |-> "/usr/bin/apt update", crit |-> FALSE, warn |-> FALSE],
     [text |-> "/usr/bin/apt  update", norm |-> "/usr/bin/apt update", crit |-> FALSE, warn |-> FALSE],
     [text |-> "/bin/bash", norm |-> "/bin/bash", crit |-> FALSE, warn |-> TRUE],
     [text |-> "/bin/bash -c visudo", norm |-> "/bin/bash -c visudo", crit |-> TRUE, warn |-> TRUE]}

\* What the two regular expressions find in a line.
Sec03Lines ==
    {[kind |-> "auth_fail", user |-> "", runas |-> "", cmd |-> [text |-> "", norm |-> "", crit |-> FALSE, warn |-> FALSE]],
     [kind |-> "other", user |-> "", runas |-> "", cmd |-> [text |-> "", norm |-> "", crit |-> FALSE, warn |-> FALSE]]}
    \cup {[kind |-> "command", user |-> "alice", runas |-> "root", cmd |-> c] : c \in Sec03Cmds}

\* classify_sudo_command: CRIT_PATTERNS first, then WARN_PATTERNS
ClassifySudoCommand(cmd) ==
    IF cmd.crit THEN "CRITICAL" ELSE IF cmd.warn THEN "WARNING" ELSE "INFO"

\* fp = f"{user}|{runas}|{cmd_norm}"
Sec03Fingerprint(line) == <<line.user, line.runas, line.cmd.norm>>

Sec03Fingerprints == {Sec03Fingerprint(l) : l \in {x \in Sec03Lines : x.kind = "command"}} \cup {<<"sudo_auth_fail">>}

\* _cooldown_for
CooldownFor(sev) ==
    IF sev = "CRITICAL" THEN COOLDOWN_CRIT
    ELSE IF sev = "WARNING" THEN COOLDOWN_WARN
    ELSE COOLDOWN_INFO

EmitOkAlways(fp, sev, t) == TRUE

\* _emit_ok: the in-memory cooldown of (fingerprint, severity); the
\* first-seen ledger is not consulted.
EmitOk(fp, sev, t) == ~(t - sec03_last_emitted[<<fp, sev>>] < CooldownFor(sev))

NoLine03 == [kind |-> "", fp |-> <<>>, sev |-> ""]

\* SudoActivityDetector.handle_line(line)
Sec03HandleLine(line) ==
    /\ sec03_n < MaxLines03
    /\ sec03_n' = sec03_n + 1
    /\ IF line.kind = "auth_fail"
       THEN LET q == PruneDeque(Append(sec03_fail_ts, clock), FAIL_CRIT_WINDOW, clock)
                count_2m == Len(q)
                count_1m == Cardinality({i \in 1..Len(q) : clock - q[i] <= FAIL_WARN_WINDOW})
                sev == IF count_2m >= FAIL_CRIT_TH THEN "CRITICAL"
                       ELSE IF count_1m >= FAIL_WARN_TH THEN "WARNING" ELSE ""
                fp == <<"sudo_auth_fail">>
                emit == sev # "" /\ EmitOk(fp, sev, clock)
            IN  /\ sec03_fail_ts' = q
                /\ sec03_last_emitted' =
                     IF emit THEN [sec03_last_emitted EXCEPT ![<<fp, sev>>] = clock]
                     ELSE sec03_last_emitted
                /\ sec03_out' = [kind |-> line.kind, fp |-> fp, sev |-> IF emit THEN sev ELSE ""]
                /\ UNCHANGED sec03_info
       ELSE IF line.kind = "command"
       THEN LET raw_sev == ClassifySudoCommand(line.cmd)
                fp == Sec03Fingerprint(line)
                emit == EmitOk(fp, raw_sev, clock)
            IN  /\ sec03_last_emitted' =
                     IF emit THEN [sec03_last_emitted EXCEPT ![<<fp, raw_sev>>] = clock]
                     ELSE sec03_last_emitted
                /\ sec03_out' = [kind |-> line.kind, fp |-> fp, sev |-> IF emit THEN raw_sev ELSE ""]
                /\ sec03_info' =
                     IF emit /\ raw_sev = "INFO" THEN [sec03_info EXCEPT ![fp] = @ + 1]
                     ELSE sec03_info
                /\ UNCHANGED sec03_fail_ts
       ELSE /\ sec03_out' = [kind |-> line.kind, fp |-> <<>>, sev |-> ""]
            /\ UNCHANGED <<sec03_last_emitted, sec03_fail_ts, sec03_info>>
    /\ UNCHANGED <<clock, storeVars, sec01Vars, sec02Vars, sec04Vars, sec05Vars, tempVars, heaVars>>

InitSec03 ==
    /\ sec03_last_emitted = [k \in Sec03Fingerprints \X Severities |-> 0]
    /\ sec03_fail_ts = <<>>
    /\ sec03_out = NoLine03
    /\ sec03_info = [fp \in Sec03Fingerprints |-> 0]
    /\ sec03_n = 0

NextSec03 ==
    \/ DetTick
    \/ \E line \in Sec03Lines : Sec03HandleLine(line)

\* C14: SEC-03 returns an INFO-level command event only the first time its
\* (user, run-as, normalised command) fingerprint is seen; every later
\* occurrence of the fingerprint is silent, however much time has passed:
\* no fingerprint has had more than one INFO event.
C14_InfoOnlyOncePerFingerprint ==
    \A fp \in Sec03Fingerprints : sec03_info[fp] <= 1

\* C31: a step in which SEC-03 returns an event for (fingerprint, severity)
\* records the time of the clock for that pair and for no other, and the
\* event before it for the same pair lies at least that severity's cooldown
\* back; a command line that returns nothing is held back by the cooldown
\* of its own fingerprint, not by one of another fingerprint.
C31_EventsOfOnePairACooldownApart ==
    [][
        /\ \A k \in Sec03Fingerprints \X Severities :
              (sec03_last_emitted'[k] # sec03_last_emitted[k]) =>
                 /\ sec03_last_emitted'[k] = clock
                 /\ clock - sec03_last_emitted[k] >= CooldownFor(k[2])
                 /\ sec03_out'.fp = k[1] /\ sec03_out'.sev = k[2]
        /\ (sec03_n' # sec03_n /\ sec03_out'.sev # "") =>
              sec03_last_emitted'[<<sec03_out'.fp, sec03_out'.sev>>] = clock
        /\ (sec03_n' # sec03_n /\ sec03_out'.kind = "command" /\ sec03_out'.sev = "") =>
              \E sev \in Severities :
                 /\ sec03_last_emitted[<<sec03_out'.fp, sev>>] # 0
                 /\ clock - sec03_last_emitted[<<sec03_out'.fp, sev>>] < CooldownFor(sev)
    ]_vars

\* C31 witness: a fingerprint has had two INFO events, and the last line,
\* with the same fingerprint, returned nothing.
C31_Witness ==
    \E fp \in Sec03Fingerprints :
        /\ sec03_info[fp] = 2
        /\ sec03_out.kind = "command" /\ sec03_out.fp = fp /\ sec03_out.sev = ""

(***************************************************************************)
(* SEC-04, ListeningPortDetector.                                          *)
(***************************************************************************)
MIN_DURATION_S == 60
PruneEvery == 600       \* _prune_if_needed: at most every 10 minutes

MaxPolls04 == 4         \* polls of the ListeningPortDetector in one behaviour

SENSITIVE_PORTS == {22, 23, 3389, 5900, 445, 139, 3306, 5432, 6379, 9200}

\* Listening sockets as `ss -H -lntup` shows them.
Sec04Sockets ==
    {[proc |-> "nginx", port |-> 80, proto |-> "tcp", host |-> "0.0.0.0"],
     [proc |-> "xrdp", port |-> 3389, proto |-> "tcp", host |-> "0.0.0.0"]}

\* _bind_type; the hosts of the model that are neither loopback nor
\* wildcard are addresses of LAN_NETS.
BindType(host) ==
    IF host \in {"127.0.0.1", "::1", "localhost"} THEN "LOCAL"
    ELSE IF host \in {"*", "0.0.0.0", "::"} THEN "GLOBAL"
    ELSE "LAN"

\* Key(proc, port, proto, bind)
KeyOf(s) == [proc |-> s.proc, port |-> s.port, proto |-> s.proto, bind |-> BindType(s.host)]

Sec04Keys == {KeyOf(s) : s \in Sec04Sockets}

\* _snapshot: Key -> host, a wildcard host preferred
Snapshot(socks) ==
    [k \in {KeyOf(s) : s \in socks} |->
        LET hosts == {s.host : s \in {x \in socks : KeyOf(x) = k}}
            wild == hosts \cap {"0.0.0.0", "::", "*"}
        IN  IF wild # {} THEN CHOOSE h \in wild : TRUE ELSE CHOOSE h \in hosts : TRUE]

\* _severity
Sec04Severity(bind, port) ==
    IF bind = "LOCAL" THEN "INFO"
    ELSE IF bind = "LAN" THEN "WARNING"
    ELSE IF port \in SENSITIVE_PORTS THEN "CRITICAL" ELSE "WARNING"

\* The trust lists config.yaml may hold.
Sec04TrustLists == {{}, {[proc |-> "nginx", port |-> 80, bind |-> "GLOBAL"]}}

\* is_sec04_trusted(proc, port, bind)
IsSec04Trusted(al, k) ==
    \E e \in al : e.proc = k.proc /\ e.port = k.port /\ e.bind = k.bind

\* fs_key = f"sec04|{k.proc}|{k.port}|{k.proto}|{k.bind}"
Sec04FsKey(k) ==
    "sec04|" \o k.proc \o "|" \o ToString(k.port) \o "|" \o k.proto \o "|" \o k.bind

\* The functions module db defines.
DbFunctions ==
    {"_now", "connect", "init_db", "set_flag", "get_flag", "clear_flag", "remaining_seconds",
     "add_event", "list_events", "clear_events", "first_seen_touch", "list_first_seen"}

\* _prune_if_needed: nothing when the last prune is less than 600 s old;
\* else db.prune_first_seen(...), an attribute module db does not have, and
\* _last_prune_ts is set only after that call.
PruneIfNeeded(det, t) ==
    IF t - det.last_prune_ts < PruneEvery THEN "ok"
    ELSE IF "prune_first_seen" \in DbFunctions THEN "ok"
    ELSE "AttributeError"

NewDetector04 ==
    [primed |-> FALSE, seen_session |-> {},
     pending_since |-> [k \in Sec04Keys |-> None],
     last_host |-> [k \in Sec04Keys |-> ""],
     last_prune_ts |-> 0]

\* poll after _prune_if_needed: the detector, the ledger and the events it
\* leaves, for the snapshot snap read at time t under trust list al.
Sec04PollBody(det, snap, t, al) ==
    LET keys_now == DOMAIN snap
    IN  IF ~det.primed
        THEN [det |-> [det EXCEPT !.seen_session = keys_now, !.primed = TRUE],
              ledger |-> first_seen, events |-> {}]
        ELSE
        LET pend == [k \in Sec04Keys |->
                           IF k \in keys_now THEN det.pending_since[k] ELSE None]
            fresh == {k \in keys_now \ det.seen_session : pend[k] = None}
            stable == {k \in keys_now \ det.seen_session :
                          pend[k] # None /\ ~(t - pend[k] < MIN_DURATION_S)}
            touched == {k \in stable : ~IsSec04Trusted(al, k)}
            unseen == {k \in touched : ~first_seen[Sec04FsKey(k)].present}
        IN  [det |-> [det EXCEPT
                        !.seen_session = @ \cup stable,
                        !.pending_since = [k \in Sec04Keys |->
                            IF k \in fresh THEN t
                            ELSE IF k \in stable THEN None ELSE pend[k]],
                        !.last_host = [k \in Sec04Keys |->
                            IF k \in keys_now \ det.seen_session /\ k \notin stable
                            THEN snap[k] ELSE ""]],
             ledger |-> [f \in FsKeys |->
                            IF \E k \in touched : Sec04FsKey(k) = f
                            THEN IF first_seen[f].present
                                 THEN FirstSeenUpdate(first_seen[f], t)
                                 ELSE FirstSeenInsert(t)
                            ELSE first_seen[f]],
             events |-> {[key |-> k, sev |-> Sec04Severity(k.bind, k.port),
                          entity |-> <<snap[k], k.port>>] : k \in unseen}]

NoPoll04 == [raised |-> "", events |-> {}]

NoHist04 == [n |-> 0, at |-> 0, first |-> {},
             since |-> [k \in Sec04Keys |-> None], trusted |-> {}]

\* ListeningPortDetector.poll(), the sockets socks listening and the trust
\* list al in config.yaml.
Sec04Poll(socks, al) ==
    /\ sec04_hist.n < MaxPolls04
    /\ LET snap == Snapshot(socks)
           keys_now == DOMAIN snap
       IN  /\ sec04_hist' =
                [n |-> sec04_hist.n + 1,
                 at |-> clock,
                 first |-> IF sec04_hist.n = 0 THEN keys_now ELSE sec04_hist.first,
                 since |-> [k \in Sec04Keys |->
                              IF k \notin keys_now THEN None
                              ELSE IF sec04_hist.since[k] = None THEN clock
                              ELSE sec04_hist.since[k]],
                 trusted |-> sec04_hist.trusted \cup {k \in keys_now : IsSec04Trusted(al, k)}]
           /\ IF PruneIfNeeded(sec04_det, clock) # "ok"
              THEN /\ sec04_out' = [raised |-> PruneIfNeeded(sec04_det, clock), events |-> {}]
                   /\ UNCHANGED <<sec04_det, sec04_emitted, first_seen>>
              ELSE LET r == Sec04PollBody(sec04_det, snap, clock, al)
                   IN  /\ sec04_det' = r.det
                       /\ first_seen' = r.ledger
                       /\ sec04_out' = [raised |-> "", events |-> r.events]
                       /\ sec04_emitted' = [k \in Sec04Keys |->
                            IF \E e \in r.events : e.key = k
                            THEN Append(sec04_emitted[k], Sec04Severity(k.bind, k.port))
                            ELSE sec04_emitted[k]]
    /\ UNCHANGED <<clock, now, eventVars, flagVars, touches, lastTouch,
                   notifierVars, dispatchVars, monitorVars,
                   sec01Vars, sec02Vars, sec03Vars, sec05Vars, tempVars, heaVars>>

InitSec04 ==
    /\ sec04_det = NewDetector04
    /\ sec04_hist = NoHist04
    /\ sec04_out = NoPoll04
    /\ sec04_emitted = [k \in Sec04Keys |-> <<>>]

NextSec04 ==
    \/ DetTick
    \/ \E socks \in SUBSET Sec04Sockets, al \in Sec04TrustLists : Sec04Poll(socks, al)

\* C15: the first poll of a ListeningPortDetector returns no events and
\* records every socket of its snapshot as baseline, and a socket of that
\* baseline produces no event in any later poll.
C15_FirstPollIsBaseline ==
    sec04_hist.n >= 1 =>
        /\ sec04_det.primed
        /\ sec04_hist.first \subseteq sec04_det.seen_session
        /\ \A k \in sec04_hist.first : sec04_emitted[k] = <<>>
        /\ (sec04_hist.n = 1 => sec04_out = NoPoll04)

\* C16: a socket absent at the baseline poll that has since been present in
\* every poll for at least MIN_DURATION_S, is not trust-listed and had no
\* first-seen record, has produced exactly one event, of the severity of
\* its bind scope and port.
C16_StableNewSocketAlertsOnce ==
    \A k \in Sec04Keys :
        (/\ sec04_hist.n >= 1
         /\ k \notin sec04_hist.first
         /\ sec04_hist.since[k] # None
         /\ sec04_hist.at - sec04_hist.since[k] >= MIN_DURATION_S
         /\ k \notin sec04_hist.trusted)
        => sec04_emitted[k] = <<Sec04Severity(k.bind, k.port)>>

\* C32: a socket key that was not in the first snapshot and has been in
\* every snapshot since some later poll, without an event so far, has a
\* stability timer, started at the poll that first found it again; a key
\* missing from the last snapshot has none; and an event is returned for a
\* key only after MIN_DURATION_S of such presence.
C32_TimerRunsWhilePresentOnly ==
    \A k \in Sec04Keys :
        /\ (/\ sec04_hist.n >= 2
            /\ k \notin sec04_hist.first
            /\ sec04_hist.since[k] # None
            /\ k \notin sec04_det.seen_session)
           => sec04_det.pending_since[k] = sec04_hist.since[k]
        /\ (sec04_hist.n >= 1 /\ sec04_hist.since[k] = None)
           => sec04_det.pending_since[k] = None
        /\ (\E e \in sec04_out.events : e.key = k)
           => /\ sec04_hist.since[k] # None
              /\ sec04_hist.at - sec04_hist.since[k] >= MIN_DURATION_S

\* C33: no poll ends in an exception of the pruning, and after every poll
\* the last pruning of the first-seen ledger is less than PruneEvery
\* seconds old.
C33_PrunedThroughStoreEveryTenMinutes ==
    sec04_hist.n >= 1 =>
        /\ sec04_out.raised = ""
        /\ sec04_det.last_prune_ts # 0
        /\ sec04_hist.at - sec04_det.last_prune_ts < PruneEvery

(***************************************************************************)
(* SEC-05, FileIntegrityDetector.                                          *)
(***************************************************************************)
DEBOUNCE_CHECKS == 2
COOLDOWN_S == 1800
WithinS == 600          \* poll: recent_sec02_or_sec03(within_s=600)
ListLimit == 50         \* recent_sec02_or_sec03: db.list_events(limit=50)

MaxPolls05 == 3         \* polls of the FileIntegrityDetector in one behaviour
MaxFeed == 1            \* events other detectors store in one behaviour
CorrStep == 350         \* seconds the clock advances between SEC-05 steps
MaxCorrTicks == 2
MaintTtl == 1800        \* `argus maintenance 30m`
MaxLongPolls == 5       \* polls in one behaviour of the longer runs
LongStep == 900         \* seconds the clock advances in one step of the longer runs
MaxLongTicks == 2
MaxSevPolls == 3        \* polls in one behaviour of the runs at one instant

CRITICAL_PATHS == {"/etc/passwd"}
WARNING_PATHS == {"/etc/crontab"}

Sec05Paths == CRITICAL_PATHS \cup WARNING_PATHS

\* Two file contents, each named by the number standing for its fingerprint string
Fingerprints == {1, 2}

\* What one poll finds: per path a fingerprint, or None when the file can
\* neither be read nor stat-ed.
Sec05Observations == [Sec05Paths -> Fingerprints \cup {None}]

\* a variant of _expand_paths that keeps the existing files only
ExpandPathsExisting(obs) ==
    [crit |-> {p \in CRITICAL_PATHS : obs[p] # None},
     warn |-> {p \in WARNING_PATHS : obs[p] # None}]

\* _expand_paths: the critical paths always, a warning path only while
\* os.path.isfile holds for it.
ExpandPaths(obs) ==
    [crit |-> CRITICAL_PATHS, warn |-> {p \in WARNING_PATHS : obs[p] # None}]

\* _base_severity
BaseSeverity(path, crit_list, warn_list) ==
    IF path \in crit_list THEN "CRITICAL"
    ELSE IF path \in warn_list THEN "WARNING"
    ELSE "INFO"

\* db.list_events(limit): the newest limit rows
ListEvents(feed, limit) ==
    IF Len(feed) <= limit THEN feed ELSE SubSeq(feed, Len(feed) - limit + 1, Len(feed))

\* recent_sec02_or_sec03
RecentSec02OrSec03(feed, t, within_s) ==
    LET rows == ListEvents(feed, ListLimit)
    IN  \E i \in 1..Len(rows) :
            /\ ~(t - rows[i].ts > within_s)
            /\ rows[i].code \in {"SEC-02", "SEC-03"}
            /\ rows[i].severity \in {"WARNING", "CRITICAL"}

\* _FileState, with known = the path is a key of self.state
NoFileState ==
    [known |-> FALSE, current |-> None, pending |-> None, pending_count |-> 0, last_emit_ts |-> 0]

Sec05SeverityPlain(base, maint, pkg_active, escal) == base

\* poll: the severity of an accepted change
Sec05Severity(base, maint, pkg_active, escal) ==
    IF base = "WARNING" /\ escal THEN "CRITICAL"
    ELSE IF base = "WARNING" /\ (maint \/ pkg_active) THEN "INFO"
    ELSE base

InCooldownNever(st, t) == FALSE

\* poll: now - st.last_emit_ts < self.COOLDOWN_S
InCooldown(st, t) == t - st.last_emit_ts < COOLDOWN_S

\* poll: the loop body for one watched path; ev = "" for no event.
Sec05Step(st, fp, t, base, maint, pkg_active, escal) ==
    IF ~st.known
    THEN [st |-> [NoFileState EXCEPT !.known = TRUE, !.current = fp], ev |-> ""]
    ELSE IF fp = None \/ st.current = None
    THEN [st |-> [st EXCEPT !.current = fp, !.pending = None, !.pending_count = 0], ev |-> ""]
    ELSE IF fp = st.current
    THEN [st |-> [st EXCEPT !.pending = None, !.pending_count = 0], ev |-> ""]
    ELSE
    LET cnt == IF st.pending = fp THEN st.pending_count + 1 ELSE 1
    IN  IF cnt < DEBOUNCE_CHECKS
        THEN [st |-> [st EXCEPT !.pending = fp, !.pending_count = cnt], ev |-> ""]
        ELSE IF InCooldown(st, t)
        THEN [st |-> [st EXCEPT !.current = fp, !.pending = None, !.pending_count = 0],
              ev |-> ""]
        ELSE [st |-> [st EXCEPT !.current = fp, !.pending = None, !.pending_count = 0,
                                !.last_emit_ts = t],
              ev |-> Sec05Severity(base, maint, pkg_active, escal)]

\* history of one path at the last poll: polled = the path was watched;
\* known, before = its state when the poll began; after, ev = what the poll
\* left and returned; recent, maint, pkg = a SEC-02 / SEC-03 event of the
\* last WithinS seconds was in the store, the maintenance flag was in force,
\* a package manager was running; fresh = the fingerprints the polls have
\* found since the file was last missing, had = the same before this poll.
NoOut05 == [polled |-> FALSE, known |-> FALSE, before |-> None, after |-> None,
            ev |-> "", recent |-> FALSE, maint |-> FALSE, pkg |-> FALSE,
            had |-> {}, fresh |-> {}]

FreshAfter(out, fp, hist) ==
    IF fp = None \/ ~hist THEN {} ELSE out.fresh \cup {fp}

\* FileIntegrityDetector.poll(), the files as obs and a package manager
\* running or not; hist = the history fields had and fresh are kept.
Sec05PollBody(obs, pkg_active, hist) ==
    /\ sec05_n' = sec05_n + 1
    /\ LET lists == ExpandPaths(obs)
           watch == lists.crit \cup lists.warn
           maint == GetFlagResult(flags["maintenance"], clock).present
           escal == RecentSec02OrSec03(sec05_feed, clock, WithinS)
           step(p) == Sec05Step(sec05_state[p], obs[p], clock,
                                BaseSeverity(p, lists.crit, lists.warn),
                                maint, pkg_active, escal)
       IN  /\ flags' = [flags EXCEPT !["maintenance"] = GetFlagRow(@, clock)]
           /\ sec05_state' = [p \in Sec05Paths |->
                                IF p \in watch THEN step(p).st ELSE sec05_state[p]]
           /\ sec05_prev' = [p \in Sec05Paths |->
                                IF p \in watch
                                THEN IF Len(sec05_prev[p]) < 2
                                     THEN Append(sec05_prev[p], obs[p])
                                     ELSE <<sec05_prev[p][2], obs[p]>>
                                ELSE <<>>]
           /\ sec05_out' = [p \in Sec05Paths |->
                                IF p \in watch
                                THEN [polled |-> TRUE,
                                      known |-> sec05_state[p].known,
                                      before |-> sec05_state[p].current,
                                      after |-> step(p).st.current,
                                      ev |-> step(p).ev,
                                      recent |-> \E i \in 1..Len(sec05_feed) :
                                          /\ sec05_feed[i].code \in {"SEC-02", "SEC-03"}
                                          /\ clock - sec05_feed[i].ts <= WithinS,
                                      maint |-> maint,
                                      pkg |-> pkg_active,
                                      had |-> sec05_out[p].fresh,
                                      fresh |-> FreshAfter(sec05_out[p], obs[p], hist)]
                                ELSE [NoOut05 EXCEPT
                                        !.had = sec05_out[p].fresh,
                                        !.fresh = FreshAfter(sec05_out[p], obs[p], hist)]]
    /\ UNCHANGED <<flagRead, clock, now, eventVars, lastGet, flagSet, fsVars,
                   notifierVars, dispatchVars, monitorVars, sec05_feed,
                   sec01Vars, sec02Vars, sec03Vars, sec04Vars, tempVars, heaVars>>

Sec05Poll(obs, pkg_active) ==
    /\ sec05_n < MaxPolls05
    /\ Sec05PollBody(obs, pkg_active, FALSE)

\* A poll of a run in which no time passes.
Sec05SevPoll(obs, pkg_active) ==
    /\ sec05_n < MaxSevPolls
    /\ Sec05PollBody(obs, pkg_active, FALSE)

\* A poll of a longer run of the detector, no package manager running.
Sec05LongPoll(obs) ==
    /\ sec05_n < MaxLongPolls
    /\ Sec05PollBody(obs, FALSE, TRUE)

Sec05LongTick == Advance(LongStep, BootTime + MaxLongTicks * LongStep)

\* Another detector's event reaches table events (db.add_event).
Sec05Codes == {"SEC-01", "SEC-03"}

Sec05StoreEvent(code, severity) ==
    /\ Len(sec05_feed) < MaxFeed
    /\ sec05_feed' = Append(sec05_feed, [ts |-> clock, code |-> code, severity |-> severity])
    /\ UNCHANGED <<clock, storeVars, sec05_state, sec05_prev, sec05_out, sec05_n,
                   sec01Vars, sec02Vars, sec03Vars, sec04Vars, tempVars, heaVars>>

\* cli.maintenance: db.set_flag("maintenance", "1", ttl_seconds=ttl)
Sec05Maintenance ==
    /\ ~flags["maintenance"].present
    /\ flags' = [flags EXCEPT !["maintenance"] = SetFlagRow("1", MaintTtl, clock)]
    /\ UNCHANGED <<flagRead, clock, now, eventVars, lastGet, flagSet, fsVars,
                   notifierVars, dispatchVars, monitorVars, detVars>>

Sec05Tick == Advance(CorrStep, BootTime + MaxCorrTicks * CorrStep)

InitSec05 ==
    /\ sec05_state = [p \in Sec05Paths |-> NoFileState]
    /\ sec05_feed = <<>>
    /\ sec05_prev = [p \in Sec05Paths |-> <<>>]
    /\ sec05_out = [p \in Sec05Paths |-> NoOut05]
    /\ sec05_n = 0

NextSec05 ==
    \/ Sec05Tick
    \/ \E obs \in Sec05Observations, pkg \in BOOLEAN : Sec05Poll(obs, pkg)
    \/ \E code \in Sec05Codes, sev \in {"INFO", "WARNING"} : Sec05StoreEvent(code, sev)
    \/ Sec05Maintenance

\* Polls, other detectors' events and the maintenance flag at one instant.
NextSec05Sev ==
    \/ \E obs \in Sec05Observations, pkg \in BOOLEAN : Sec05SevPoll(obs, pkg)
    \/ \E code \in Sec05Codes, sev \in {"INFO", "WARNING"} : Sec05StoreEvent(code, sev)
    \/ Sec05Maintenance

\* Longer runs of the detector alone: no other events, no maintenance.
NextSec05Long ==
    \/ Sec05LongTick
    \/ \E obs \in Sec05Observations : Sec05LongPoll(obs)

\* C18: whenever a poll replaces the fingerprint held for a watched path by
\* a different fingerprint, that poll and the poll immediately before it both
\* returned that new fingerprint.
C18_ChangeAcceptedOnlyAfterTwoEqualPolls ==
    \A p \in Sec05Paths :
        (/\ sec05_out[p].polled
         /\ sec05_out[p].known
         /\ sec05_out[p].after # None
         /\ sec05_out[p].after # sec05_out[p].before)
        => /\ Len(sec05_prev[p]) = 2
           /\ sec05_prev[p][1] = sec05_out[p].after
           /\ sec05_prev[p][2] = sec05_out[p].after

\* C19: an accepted change to a warning-level path that is emitted while a
\* SEC-02 or SEC-03 event of any severity was stored within the preceding
\* 600 s is emitted as CRITICAL.
C19_EscalatedWheneverCorrelated ==
    \A p \in WARNING_PATHS :
        (sec05_out[p].ev # "" /\ sec05_out[p].recent) => sec05_out[p].ev = "CRITICAL"

\* C34: a poll that returns an event for a path records the time of the
\* clock as the path's last event, and the path's event before it lies at
\* least COOLDOWN_S back; a poll returns an event for a path only together
\* with a change of the fingerprint held for it, so a change adopted without
\* an event inside the cooldown gets none later; and a change that passes
\* the debounce inside the cooldown is adopted and returns nothing.
C34_OneEventPerPathPerCooldown ==
    [][
        \A p \in Sec05Paths :
            /\ (sec05_state'[p].last_emit_ts # sec05_state[p].last_emit_ts) =>
                  /\ sec05_state'[p].last_emit_ts = clock
                  /\ clock - sec05_state[p].last_emit_ts >= COOLDOWN_S
                  /\ sec05_out'[p].ev # ""
            /\ (sec05_n' # sec05_n /\ sec05_out'[p].ev # "") =>
                  /\ sec05_state'[p].last_emit_ts = clock
                  /\ sec05_out'[p].after # sec05_out'[p].before
                  /\ sec05_state[p].pending = sec05_out'[p].after
            /\ (/\ sec05_n' # sec05_n
                /\ sec05_out'[p].polled
                /\ sec05_state[p].known
                /\ sec05_state[p].pending # None
                /\ sec05_state[p].pending = sec05_prev'[p][Len(sec05_prev'[p])]
                /\ clock - sec05_state[p].last_emit_ts < COOLDOWN_S) =>
                  /\ sec05_out'[p].ev = ""
                  /\ sec05_state'[p].current = sec05_state[p].pending
                  /\ sec05_state'[p].last_emit_ts = sec05_state[p].last_emit_ts
    ]_vars

\* C34 witness: a path that had an event less than COOLDOWN_S ago has had a
\* second change adopted by the last poll without an event.
C34_Witness ==
    \E p \in Sec05Paths :
        /\ sec05_state[p].last_emit_ts # 0
        /\ clock - sec05_state[p].last_emit_ts < COOLDOWN_S
        /\ sec05_out[p].polled /\ sec05_out[p].ev = ""
        /\ sec05_out[p].before # None /\ sec05_out[p].after # None
        /\ sec05_out[p].after # sec05_out[p].before

\* C35: an event for a critical path is CRITICAL whatever the maintenance
\* flag, the package manager and the stored events; an event for a warning
\* path, with no SEC-02 or SEC-03 event stored in the last WithinS seconds,
\* is INFO if the maintenance flag is in force or a package manager is
\* running, WARNING otherwise.
C35_SeverityOfAcceptedChange ==
    \A p \in Sec05Paths :
        sec05_out[p].ev # "" =>
            /\ p \in CRITICAL_PATHS => sec05_out[p].ev = "CRITICAL"
            /\ (p \in WARNING_PATHS /\ ~sec05_out[p].recent) =>
                  sec05_out[p].ev =
                      IF sec05_out[p].maint \/ sec05_out[p].pkg THEN "INFO" ELSE "WARNING"

\* C35 witness: one poll, under maintenance and after a SEC-01 event,
\* returned CRITICAL for the critical path and INFO for the warning path.
C35_Witness ==
    /\ sec05_out["/etc/passwd"].ev = "CRITICAL"
    /\ sec05_out["/etc/passwd"].maint /\ ~sec05_out["/etc/passwd"].pkg
    /\ sec05_out["/etc/crontab"].ev = "INFO"
    /\ sec05_feed # <<>>

\* C40 as stated: a poll that finds no fingerprint for a tracked path
\* returns nothing and empties its baseline, the first fingerprint found
\* afterwards becomes the baseline without an event, and so the fingerprint
\* an event replaces is never one from before the file was last missing.
C40_RecreatedFileGivesNoEvent ==
    \A p \in Sec05Paths :
        /\ (sec05_out[p].polled /\ sec05_out[p].known /\ sec05_out[p].fresh = {}) =>
              sec05_out[p].ev = "" /\ sec05_out[p].after = None
        /\ (sec05_out[p].polled /\ sec05_out[p].known /\ sec05_out[p].before = None
            /\ sec05_out[p].fresh # {}) =>
              sec05_out[p].ev = "" /\ sec05_out[p].after \in sec05_out[p].fresh
        /\ sec05_out[p].ev # "" => sec05_out[p].before \in sec05_out[p].had

\* C40 amended: the same of the paths of CRITICAL_PATHS, which are watched
\* whether the file exists or not; a warning path is not polled while its
\* file is missing, and its baseline is never emptied.
C40_RecreatedCriticalFileGivesNoEvent ==
    /\ \A p \in CRITICAL_PATHS :
        /\ sec05_n >= 1 => sec05_out[p].polled
        /\ (sec05_out[p].known /\ sec05_out[p].fresh = {}) =>
              sec05_out[p].ev = "" /\ sec05_out[p].after = None
        /\ (sec05_out[p].known /\ sec05_out[p].before = None /\ sec05_out[p].fresh # {}) =>
              sec05_out[p].ev = "" /\ sec05_out[p].after \in sec05_out[p].fresh
        /\ sec05_out[p].ev # "" => sec05_out[p].before \in sec05_out[p].had
    /\ \A p \in WARNING_PATHS :
        /\ (sec05_n >= 1 /\ sec05_out[p].fresh = {}) => ~sec05_out[p].polled
        /\ sec05_state[p].known => sec05_state[p].current # None

\* C40 witness: the last poll found the critical file again after a poll
\* that had found none, and took its fingerprint as baseline without an
\* event; the same poll returned an event for the warning file, replacing
\* the fingerprint it had before it was missing.
C40_Witness ==
    /\ \E p \in CRITICAL_PATHS :
        /\ sec05_out[p].known /\ sec05_out[p].before = None
        /\ sec05_out[p].after # None /\ sec05_out[p].ev = ""
    /\ \E p \in WARNING_PATHS :
        sec05_out[p].ev # "" /\ sec05_out[p].before \notin sec05_out[p].had

(***************************************************************************)
(* HEA-01 / HEA-02, TemperatureDetector.                                   *)
(***************************************************************************)
MaxTempPolls == 6       \* polls of the TemperatureDetector in one behaviour
TempStep == 10          \* seconds between two readings of the clock by the TemperatureDetector
MaxTempTicks == 12

\* CPU temperatures in whole degrees, one for each band the detector tells apart
Temperatures == {70, 82, 87, 92, 96}

\* _Gate()
NewGate == [start_ts |-> None, active |-> FALSE, recover_ts |-> None]

GateAlwaysIdle(g) == FALSE

\* `self._crit.active`, `self._hi.active` as poll tests them
GateActive(g) == g.active

\* One gate of poll: hot = the trigger condition holds for this reading,
\* cool = the recovery condition holds; sev = "" for no event.
GateStep(g, hot, cool, hold_s, recover_s, trigger_sev, t) ==
    IF ~GateActive(g)
    THEN IF hot
         THEN LET start == IF g.start_ts = None THEN t ELSE g.start_ts
              IN  IF t - start >= hold_s
                  THEN [g |-> [g EXCEPT !.start_ts = start, !.active = TRUE,
                                        !.recover_ts = None],
                        sev |-> trigger_sev]
                  ELSE [g |-> [g EXCEPT !.start_ts = start], sev |-> ""]
         ELSE [g |-> [g EXCEPT !.start_ts = None], sev |-> ""]
    ELSE IF cool
         THEN LET rec == IF g.recover_ts = None THEN t ELSE g.recover_ts
              IN  IF t - rec >= recover_s
                  THEN [g |-> [g EXCEPT !.recover_ts = rec, !.active = FALSE,
                                        !.start_ts = None],
                        sev |-> "INFO"]
                  ELSE [g |-> [g EXCEPT !.recover_ts = rec], sev |-> ""]
         ELSE [g |-> [g EXCEPT !.recover_ts = None], sev |-> ""]

CritGateNoHold(g, temp_c, t) == GateStep(g, temp_c >= 95, temp_c <= 90, 0, 60, "CRITICAL", t)

HiGateIgnoringCrit(g, crit, temp_c, t) ==
    GateStep(g, temp_c >= 85, temp_c <= 80, 30, 60, "WARNING", t)

\* CRITICAL gate (HEA-02): >= 95 for >= 10 s, recovery <= 90 for >= 60 s
CritGate(g, temp_c, t) == GateStep(g, temp_c >= 95, temp_c <= 90, 10, 60, "CRITICAL", t)

\* WARNING gate (HEA-01): >= 85 for >= 30 s while HEA-02 is not active,
\* recovery <= 80 for >= 60 s
HiGate(g, crit, temp_c, t) ==
    GateStep(g, ~GateActive(crit) /\ temp_c >= 85, temp_c <= 80, 30, 60, "WARNING", t)

NoTempOut == [flipped |-> {}, events |-> {}]

NoSpan == [at |-> 0, hot95 |-> None, cool90 |-> None, hot85 |-> None, hot85free |-> None,
           cool80 |-> None]

\* The time since which a condition has held on every poll, None when the
\* last poll did not see it hold.
RunSince(since, holds, t) == IF ~holds THEN None ELSE IF since = None THEN t ELSE since

\* TemperatureDetector.poll(temp_c, now)
TempPoll(temp_c) ==
    /\ temp_n < MaxTempPolls
    /\ temp_n' = temp_n + 1
    /\ LET c == CritGate(temp_crit, temp_c, clock)
           h == HiGate(temp_hi, c.g, temp_c, clock)
       IN  /\ temp_crit' = c.g
           /\ temp_hi' = h.g
           /\ temp_events' =
                [crit |-> IF c.sev # "" THEN Append(temp_events.crit, c.sev)
                          ELSE temp_events.crit,
                 hi |-> IF h.sev # "" THEN Append(temp_events.hi, h.sev)
                        ELSE temp_events.hi]
           /\ temp_out' =
                [flipped |-> (IF c.g.active # temp_crit.active THEN {"HEA-02"} ELSE {})
                             \cup (IF h.g.active # temp_hi.active THEN {"HEA-01"} ELSE {}),
                 events |-> (IF c.sev # "" THEN {<<"HEA-02", c.sev>>} ELSE {})
                            \cup (IF h.sev # "" THEN {<<"HEA-01", h.sev>>} ELSE {})]
           /\ temp_span' =
                [at |-> clock,
                 hot95 |-> RunSince(temp_span.hot95, temp_c >= 95, clock),
                 cool90 |-> RunSince(temp_span.cool90, temp_c <= 90, clock),
                 hot85 |-> RunSince(temp_span.hot85, temp_c >= 85, clock),
                 hot85free |-> RunSince(temp_span.hot85free,
                                        temp_c >= 85 /\ ~c.g.active, clock),
                 cool80 |-> RunSince(temp_span.cool80, temp_c <= 80, clock)]
    /\ UNCHANGED <<clock, storeVars, sec01Vars, sec02Vars, sec03Vars, sec04Vars, sec05Vars, heaVars>>

TempTick == Advance(TempStep, BootTime + MaxTempTicks * TempStep)

InitTemp ==
    /\ temp_hi = NewGate
    /\ temp_crit = NewGate
    /\ temp_events = [crit |-> <<>>, hi |-> <<>>]
    /\ temp_out = NoTempOut
    /\ temp_n = 0
    /\ temp_span = NoSpan

NextTemp ==
    \/ TempTick
    \/ \E temp_c \in Temperatures : TempPoll(temp_c)

\* C20: a poll emits an event for a gate exactly when it changed that gate's
\* active flag, and each gate's events alternate between its trigger event
\* (WARNING for HEA-01, CRITICAL for HEA-02) and a recovery event (INFO),
\* starting with a trigger.
C20_GateEventsOnlyOnTransitions ==
    /\ {e[1] : e \in temp_out.events} = temp_out.flipped
    /\ \A i \in 1..Len(temp_events.crit) :
        temp_events.crit[i] = IF i % 2 = 1 THEN "CRITICAL" ELSE "INFO"
    /\ \A i \in 1..Len(temp_events.hi) :
        temp_events.hi[i] = IF i % 2 = 1 THEN "WARNING" ELSE "INFO"
    /\ temp_crit.active = (Len(temp_events.crit) % 2 = 1)
    /\ temp_hi.active = (Len(temp_events.hi) % 2 = 1)

\* C20 witness: the HEA-02 gate has triggered and recovered, and the poll
\* after its recovery left both gates steady and emitted nothing.
C20_Witness ==
    /\ temp_events.crit = <<"CRITICAL", "INFO">>
    /\ ~temp_crit.active
    /\ temp_n >= 4
    /\ temp_out = NoTempOut

\* The condition has held on every poll since a time at least d before the last poll.
HeldFor(since, d) == since # None /\ temp_span.at - since >= d

\* C21: a gate becomes active only on a poll up to which its trigger
\* condition (>= 95 for HEA-02, >= 85 for HEA-01) has held on every poll for
\* at least its duration (10 s, 30 s), and inactive only on a poll up to
\* which its recovery condition (<= 90, <= 80) has held on every poll for at
\* least 60 s; a poll on which the condition does not hold clears the
\* timer, and a running timer never starts before the current run of polls
\* on which the condition held.
C21_GateChangesOnlyAfterFullDuration ==
    /\ ("HEA-02" \in temp_out.flipped /\ temp_crit.active) => HeldFor(temp_span.hot95, 10)
    /\ ("HEA-02" \in temp_out.flipped /\ ~temp_crit.active) => HeldFor(temp_span.cool90, 60)
    /\ ("HEA-01" \in temp_out.flipped /\ temp_hi.active) => HeldFor(temp_span.hot85, 30)
    /\ ("HEA-01" \in temp_out.flipped /\ ~temp_hi.active) => HeldFor(temp_span.cool80, 60)
    /\ ~temp_crit.active => temp_crit.start_ts = temp_span.hot95
    /\ temp_crit.active => temp_crit.recover_ts = temp_span.cool90
    /\ (~temp_hi.active /\ temp_span.hot85 = None) => temp_hi.start_ts = None
    /\ (~temp_hi.active /\ temp_hi.start_ts # None) => temp_hi.start_ts >= temp_span.hot85
    /\ temp_hi.active => temp_hi.recover_ts = temp_span.cool80

\* C21 witness: the HEA-02 timer was cleared by a cooler poll and served
\* again from zero: the gate triggered on a poll before which more readings
\* >= 95 were taken than the current run holds.
C21_Witness ==
    /\ "HEA-02" \in temp_out.flipped
    /\ temp_crit.active
    /\ temp_n >= 4
    /\ temp_span.at - temp_span.hot95 < 2 * TempStep
    /\ temp_span.at - BootTime >= 3 * TempStep

\* C22: a poll that ends with the CRITICAL gate active returns no HEA-01
\* WARNING and leaves the timer of an inactive WARNING gate cleared; the
\* WARNING gate triggers only after >= 85 has held for 30 s on polls that
\* all ended with the CRITICAL gate inactive; and an active WARNING gate
\* recovers once <= 80 has held for 60 s, whatever the CRITICAL gate was at
\* the start of that poll.
C22_NoWarningTriggerWhileCritical ==
    /\ temp_crit.active => <<"HEA-01", "WARNING">> \notin temp_out.events
    /\ (temp_crit.active /\ ~temp_hi.active) => temp_hi.start_ts = None
    /\ ("HEA-01" \in temp_out.flipped /\ temp_hi.active) => HeldFor(temp_span.hot85free, 30)
    /\ ~temp_hi.active => temp_hi.start_ts = temp_span.hot85free
    /\ ~(temp_hi.active /\ HeldFor(temp_span.cool80, 60))

\* C22 witness: the reading has been >= 85 for 30 s or more, the CRITICAL
\* gate is active and the WARNING gate has not triggered.
C22_Witness ==
    /\ temp_crit.active
    /\ ~temp_hi.active
    /\ temp_events.hi = <<>>
    /\ HeldFor(temp_span.hot85, 30)

(***************************************************************************)
(* HEA-03, DiskUsageDetector, and its worker _hea03_loop.                  *)
(***************************************************************************)
warn_pct == 85
crit_pct == 95
consecutive == 2
clear_hysteresis_pct == 3

MaxDiskPolls == 6       \* cycles of _hea03_loop in one behaviour

Mounts == {"/"}

\* int(m.used_pct) of a mount, one value for each band the detector tells
\* apart; None: list_mount_usage does not list the mount.
UsedPcts == {82, 84, 92, 93, 96}

DiskReadings == [Mounts -> UsedPcts \cup {None}]

\* The detector's three dicts; a mount that is no key of them maps to None
\* (streaks) and "" (active level).
NewDiskDetector ==
    [warn_streak |-> [m \in Mounts |-> None],
     crit_streak |-> [m \in Mounts |-> None],
     active_level |-> [m \in Mounts |-> ""]]

\* a variant of the lookup with default 1
StreakGetOne(streak, m) == IF streak[m] = None THEN 1 ELSE streak[m]

\* self._warn_streak.get(mount, 0)
StreakGet(streak, m) == IF streak[m] = None THEN 0 ELSE streak[m]

\* active after "allow retrigger when it drops enough"
DiskCleared(active, used) ==
    IF active = "CRITICAL" /\ used <= crit_pct - clear_hysteresis_pct THEN ""
    ELSE IF active = "WARNING" /\ used <= warn_pct - clear_hysteresis_pct THEN ""
    ELSE active

\* poll: the loop body for one listed mount; sev = "" for no event.
DiskStep(det, m, used) ==
    LET warn == IF used >= warn_pct THEN StreakGet(det.warn_streak, m) + 1 ELSE 0
        crit == IF used >= crit_pct THEN StreakGet(det.crit_streak, m) + 1 ELSE 0
        active == DiskCleared(det.active_level[m], used)
        crit_due == crit >= consecutive /\ active # "CRITICAL"
        warn_due == warn >= consecutive /\ active \notin {"WARNING", "CRITICAL"}
        sev == IF crit_due THEN "CRITICAL"
               ELSE IF warn_due THEN "WARNING"
               ELSE ""
    IN  [warn |-> warn, crit |-> crit,
         active |-> IF sev # "" THEN sev ELSE active,
         sev |-> sev,
         due |-> {l \in {"CRITICAL"} : crit_due} \cup {l \in {"WARNING"} : warn_due}]

\* DiskUsageDetector.poll(): the detector it leaves and the events it
\* returns, for the mounts listed with their usage in reading.
DiskPoll(det, reading) ==
    LET listed == {m \in Mounts : reading[m] # None}
        \* cleanup removed mounts
        kept == [warn_streak |-> [m \in Mounts |->
                     IF m \notin listed THEN None ELSE det.warn_streak[m]],
                 crit_streak |-> [m \in Mounts |->
                     IF m \notin listed /\ det.warn_streak[m] # None THEN None
                     ELSE det.crit_streak[m]],
                 active_level |-> [m \in Mounts |->
                     IF m \notin listed /\ det.warn_streak[m] # None THEN ""
                     ELSE det.active_level[m]]]
        step(m) == DiskStep(kept, m, reading[m])
    IN  [det |-> [warn_streak |-> [m \in Mounts |->
                     IF m \in listed THEN step(m).warn ELSE kept.warn_streak[m]],
                  crit_streak |-> [m \in Mounts |->
                     IF m \in listed THEN step(m).crit ELSE kept.crit_streak[m]],
                  active_level |-> [m \in Mounts |->
                     IF m \in listed THEN step(m).active ELSE kept.active_level[m]]],
         events |-> [m \in Mounts |-> IF m \in listed THEN step(m).sev ELSE ""],
         due |-> [m \in Mounts |-> IF m \in listed THEN step(m).due ELSE {}]]

\* The threshold of a level
DiskThreshold(level) == IF level = "CRITICAL" THEN crit_pct ELSE warn_pct

DiskLevels == {"WARNING", "CRITICAL"}

NoDiskHist ==
    [n |-> 0,
     alerted |-> [m \in Mounts |-> {}],
     last |-> [m \in Mounts |-> [sev |-> "", repeat |-> FALSE, stored |-> FALSE]],
     store_ok |-> TRUE,
     dropped |-> [m \in Mounts |-> ""],
     seen |-> [m \in Mounts |-> <<>>],
     due |-> [m \in Mounts |-> {}]]

\* The last consecutive readings of a mount, the newest last
LastReadings(seen, used) ==
    IF Len(seen) < consecutive THEN Append(seen, used) ELSE Append(Tail(seen), used)

\* One cycle of _hea03_loop (the prime poll before the loop included, whose
\* events are not stored): det.poll(), then for each event db.add_event,
\* which raises when store_ok is false; the except clause ends the cycle.
Hea03Cycle(reading, store_ok) ==
    /\ disk_hist.n < MaxDiskPolls
    /\ LET r == DiskPoll(disk_det, reading)
           prime == disk_hist.n = 0
           \* levels whose alert may be repeated: the mount was seen at or
           \* below the level's threshold less the hysteresis, or not listed
           low(m) == {l \in DiskLevels :
                         \/ reading[m] = None
                         \/ reading[m] <= DiskThreshold(l) - clear_hysteresis_pct}
           open(m) == disk_hist.alerted[m] \ low(m)
           stored(m) == r.events[m] # "" /\ store_ok /\ ~prime
           persists(m, l) == reading[m] # None /\ reading[m] >= DiskThreshold(l)
       IN  /\ disk_det' = r.det
           /\ disk_hist' =
                [n |-> disk_hist.n + 1,
                 alerted |-> [m \in Mounts |->
                                IF r.events[m] # "" THEN open(m) \cup {r.events[m]}
                                ELSE open(m)],
                 last |-> [m \in Mounts |->
                             [sev |-> r.events[m],
                              repeat |-> r.events[m] \in open(m),
                              stored |-> stored(m)]],
                 store_ok |-> store_ok,
                 dropped |-> [m \in Mounts |->
                                IF stored(m) THEN ""
                                ELSE IF r.events[m] # "" /\ ~prime THEN r.events[m]
                                ELSE IF disk_hist.dropped[m] # ""
                                        /\ persists(m, disk_hist.dropped[m])
                                     THEN disk_hist.dropped[m]
                                ELSE ""],
                 seen |-> [m \in Mounts |-> LastReadings(disk_hist.seen[m], reading[m])],
                 due |-> r.due]
    /\ UNCHANGED <<clock, storeVars, sec01Vars, sec02Vars, sec03Vars, sec04Vars, sec05Vars,
                   tempVars, svc_det, svc_hist, mem_det, mem_hist, win, tail>>

InitDisk ==
    /\ disk_det = NewDiskDetector
    /\ disk_hist = NoDiskHist

NextDisk ==
    \E reading \in DiskReadings, store_ok \in BOOLEAN : Hea03Cycle(reading, store_ok)

\* C23: an alert at a level is returned for a mount only if no alert at
\* that level was returned for it before, or some poll since the last one
\* saw the mount at or below that level's threshold less the hysteresis (or
\* did not list the mount at all).
C23_NoRepeatUntilBelowHysteresis ==
    \A m \in Mounts : disk_hist.last[m].sev # "" => ~disk_hist.last[m].repeat

\* C26: an event of poll that add_event failed to store is returned again
\* while its condition persists: no cycle in which the store works ends
\* with a dropped event whose condition has held on every poll since.
C26_DroppedEventIsProducedAgain ==
    \A m \in Mounts : ~(disk_hist.store_ok /\ disk_hist.dropped[m] # "")

\* C36: a poll returns an alert at a level for a mount only if that poll
\* and the polls before it, consecutive in all, each listed the mount at or
\* above the level's threshold; a poll that lists the mount below a level's
\* threshold leaves that level's streak at zero; of the levels due at a
\* poll the one returned is CRITICAL if it is among them.
C36_AlertAfterConsecutivePollsOverThreshold ==
    \A m \in Mounts :
        /\ disk_hist.last[m].sev # "" =>
              /\ Len(disk_hist.seen[m]) = consecutive
              /\ \A i \in 1..consecutive :
                    /\ disk_hist.seen[m][i] # None
                    /\ disk_hist.seen[m][i] >= DiskThreshold(disk_hist.last[m].sev)
              /\ disk_hist.last[m].sev \in disk_hist.due[m]
        /\ \A l \in DiskLevels :
              (/\ disk_hist.n >= 1
               /\ disk_hist.seen[m][Len(disk_hist.seen[m])] # None
               /\ disk_hist.seen[m][Len(disk_hist.seen[m])] < DiskThreshold(l))
              => (IF l = "CRITICAL" THEN disk_det.crit_streak[m]
                                    ELSE disk_det.warn_streak[m]) = 0
        /\ "CRITICAL" \in disk_hist.due[m] => disk_hist.last[m].sev = "CRITICAL"
        /\ disk_hist.due[m] = {} => disk_hist.last[m].sev = ""

\* C36 witness: both levels were due at the last poll, which returned
\* CRITICAL after a poll at CRITICAL level and an earlier one below it.
C36_Witness ==
    \E m \in Mounts :
        /\ disk_hist.n >= 3
        /\ disk_hist.due[m] = {"WARNING", "CRITICAL"}
        /\ disk_hist.last[m].sev = "CRITICAL"
        /\ disk_det.crit_streak[m] = consecutive

(***************************************************************************)
(* HEA-04, HeaServicesDetector, and its worker _hea04_loop.                *)
(***************************************************************************)
interval_s == 15        \* _hea04_loop: HeaServicesDetector(interval_s=15)

MaxSvcCycles == 5       \* cycles of _hea04_loop in one behaviour
SvcStep == 5            \* seconds the clock advances in one step of the services worker
MaxSvcTicks == 7

\* default_specs() where dbus.service and cron.service exist, in the order
\* of the dict: unit -> (base_severity, only_if_enabled)
SvcUnits == <<"dbus.service", "cron.service">>

SvcSpecs ==
    [u \in {"dbus.service", "cron.service"} |->
        IF u = "dbus.service"
        THEN [base_severity |-> "CRITICAL", only_if_enabled |-> FALSE]
        ELSE [base_severity |-> "WARNING", only_if_enabled |-> TRUE]]

_ENABLED_STATES == {"enabled", "enabled-runtime", "static", "alias", "generated", "indirect"}

\* The ServiceState read_states gives for a unit; absent: the unit is no key
\* of the dict.
ServiceStates ==
    {[absent |-> FALSE, load |-> "loaded", active |-> "active", sub |-> "running",
      unit_file_state |-> "enabled"],
     [absent |-> FALSE, load |-> "loaded", active |-> "failed", sub |-> "failed",
      unit_file_state |-> "enabled"],
     [absent |-> FALSE, load |-> "loaded", active |-> "inactive", sub |-> "dead",
      unit_file_state |-> "enabled"],
     [absent |-> FALSE, load |-> "loaded", active |-> "inactive", sub |-> "dead",
      unit_file_state |-> "disabled"],
     [absent |-> FALSE, load |-> "not-found", active |-> "inactive", sub |-> "dead",
      unit_file_state |-> ""],
     [absent |-> TRUE, load |-> "", active |-> "", sub |-> "", unit_file_state |-> ""]}

SvcReadings == [DOMAIN SvcSpecs -> ServiceStates]

\* HeaServicesDetector._eval: (unhealthy, reason, severity)
SvcEval(st, spec) ==
    LET enabled == st.unit_file_state \in _ENABLED_STATES
    IN  IF spec.only_if_enabled /\ ~enabled THEN <<FALSE, "", "INFO">>
        ELSE IF st.active \in {"active", "activating", "deactivating", "reloading"}
        THEN <<FALSE, "", "INFO">>
        ELSE IF st.active = "failed" \/ st.sub = "failed" THEN <<TRUE, "failed", "CRITICAL">>
        ELSE IF st.active \in {"inactive", "dead"} /\ (enabled \/ ~spec.only_if_enabled)
        THEN <<TRUE, "inactive",
               IF spec.base_severity = "CRITICAL" THEN "CRITICAL" ELSE "WARNING">>
        ELSE <<FALSE, "", "INFO">>

\* The methods class HeaServicesDetector defines: _hea04_loop tests
\* hasattr(det, "poll") and otherwise calls det.tick(now_ts).
HeaServicesMethods == {"__init__", "_eval", "tick"}

NewServicesDetector ==
    [next_ts |-> 0,
     streak |-> [u \in DOMAIN SvcSpecs |-> 0],
     is_bad |-> [u \in DOMAIN SvcSpecs |-> FALSE]]

DebouncedAtOnce(streak) == TRUE

\* not (self._streak[unit] < 2)
Debounced(streak) == ~(streak < 2)

\* tick: the loop over self._specs from its i-th unit on.  calls are the
\* db.add_event calls made, seen the units evaluated with their class; an
\* add_event that raises leaves tick at once.
RECURSIVE SvcLoop(_, _, _, _, _, _)
SvcLoop(det, states, i, store_ok, calls, seen) ==
    IF i > Len(SvcUnits) THEN [det |-> det, calls |-> calls, seen |-> seen, raised |-> FALSE]
    ELSE
    LET u == SvcUnits[i]
        st == states[u]
    IN  IF st.absent \/ st.load = "not-found"
        THEN SvcLoop(det, states, i + 1, store_ok, calls, seen)
        ELSE
        LET e == SvcEval(st, SvcSpecs[u])
        IN  IF ~e[1]
            THEN SvcLoop([det EXCEPT !.streak[u] = 0, !.is_bad[u] = FALSE], states, i + 1,
                         store_ok, calls, seen \cup {<<u, "healthy">>})
            ELSE
            LET d == [det EXCEPT !.streak[u] = @ + 1]
                seen1 == seen \cup {<<u, "unhealthy">>}
            IN  IF ~Debounced(d.streak[u]) \/ d.is_bad[u]
                THEN SvcLoop(d, states, i + 1, store_ok, calls, seen1)
                ELSE
                LET d1 == [d EXCEPT !.is_bad[u] = TRUE]
                    c == calls \cup {[unit |-> u, severity |-> e[3], stored |-> store_ok]}
                IN  IF store_ok THEN SvcLoop(d1, states, i + 1, store_ok, c, seen1)
                    ELSE [det |-> d1, calls |-> c, seen |-> seen1, raised |-> TRUE]

\* HeaServicesDetector.tick(now_ts)
SvcTick(det, states, t, store_ok) ==
    IF t < det.next_ts THEN [det |-> det, calls |-> {}, seen |-> {}, raised |-> FALSE]
    ELSE SvcLoop([det EXCEPT !.next_ts = t + interval_s], states, 1, store_ok, {}, {})

NoSvcHist ==
    [n |-> 0,
     cls |-> [u \in DOMAIN SvcSpecs |-> ""],
     prev |-> [u \in DOMAIN SvcSpecs |-> ""],
     run |-> [u \in DOMAIN SvcSpecs |-> 0],
     since |-> [u \in DOMAIN SvcSpecs |-> 0],
     calls |-> {},
     notified |-> {}]

\* One cycle of _hea04_loop: the detector has no poll, so det.tick(now_ts);
\* whatever tick raises is caught and printed.  Nothing of the cycle calls
\* _maybe_notify.
Hea04Cycle(states, store_ok) ==
    /\ svc_hist.n < MaxSvcCycles
    /\ "poll" \notin HeaServicesMethods
    /\ LET r == SvcTick(svc_det, states, clock, store_ok)
           evaluated(u) == \E c \in {"healthy", "unhealthy"} : <<u, c>> \in r.seen
           class(u) == IF <<u, "healthy">> \in r.seen THEN "healthy" ELSE "unhealthy"
           called(u) == \E c \in r.calls : c.unit = u
       IN  /\ svc_det' = r.det
           /\ svc_hist' =
                [n |-> svc_hist.n + 1,
                 cls |-> [u \in DOMAIN SvcSpecs |->
                            IF evaluated(u) THEN class(u) ELSE svc_hist.cls[u]],
                 prev |-> [u \in DOMAIN SvcSpecs |->
                            IF evaluated(u) THEN svc_hist.cls[u] ELSE svc_hist.prev[u]],
                 run |-> [u \in DOMAIN SvcSpecs |->
                            IF ~evaluated(u) THEN svc_hist.run[u]
                            ELSE IF class(u) = "healthy" THEN 0 ELSE svc_hist.run[u] + 1],
                 since |-> [u \in DOMAIN SvcSpecs |->
                            IF evaluated(u) /\ class(u) = "healthy" THEN 0
                            ELSE IF called(u) THEN svc_hist.since[u] + 1
                            ELSE svc_hist.since[u]],
                 calls |-> r.calls,
                 notified |-> {}]
    /\ UNCHANGED <<clock, storeVars, sec01Vars, sec02Vars, sec03Vars, sec04Vars, sec05Vars,
                   tempVars, disk_det, disk_hist, mem_det, mem_hist, win, tail>>

SvcClock == Advance(SvcStep, BootTime + MaxSvcTicks * SvcStep)

InitServices ==
    /\ svc_det = NewServicesDetector
    /\ svc_hist = NoSvcHist

NextServices ==
    \/ SvcClock
    \/ \E states \in SvcReadings, store_ok \in BOOLEAN : Hea04Cycle(states, store_ok)

\* C24: db.add_event is called for a unit at an evaluation only if that
\* evaluation and the previous evaluation of the unit both classified it
\* unhealthy; it is called at most once between two healthy evaluations of
\* the unit, and exactly once for a unit found unhealthy at two or more
\* evaluations in a row.
C24_EventOnlyAfterTwoUnhealthyOncePerEpisode ==
    \A u \in DOMAIN SvcSpecs :
        /\ (\E c \in svc_hist.calls : c.unit = u) =>
              svc_hist.cls[u] = "unhealthy" /\ svc_hist.prev[u] = "unhealthy"
        /\ svc_hist.since[u] <= 1
        /\ svc_hist.run[u] >= 2 => svc_hist.since[u] = 1

\* C24 witness: a unit has been unhealthy at three evaluations in a row, its
\* one event lies behind and the last cycle made no call for it.
C24_Witness ==
    \E u \in DOMAIN SvcSpecs :
        /\ svc_hist.run[u] >= 3
        /\ svc_hist.since[u] = 1
        /\ \A c \in svc_hist.calls : c.unit # u

\* C27: each CRITICAL event the monitor stored while mute is absent is
\* offered to the Notifier: a notify call for it follows in the same cycle.
C27_StoredCriticalIsNotified ==
    \A c \in svc_hist.calls :
        (c.stored /\ c.severity = "CRITICAL" /\ ~flags["mute"].present)
        => c.unit \in svc_hist.notified

(***************************************************************************)
(* HEA-05, MemoryPressureDetector, and its worker _hea05_loop.  Per cents  *)
(* are compared without division: a * 100 / total <= p as                  *)
(* a * 100 <= p * total.                                                   *)
(***************************************************************************)
warn_mem_avail_pct == 10
crit_mem_avail_pct == 5
warn_swap_used_pct == 70
crit_swap_used_pct == 90
warn_swapout_ps == 200
crit_swapout_ps == 1000
hea05_consecutive == 2
clear_consecutive == 3
min_emit_interval_s == 15
Hea05Interval == 5      \* _hea05_loop(stop, interval_s=5)

MaxMemPolls == 7        \* polls of _hea05_loop in one behaviour, the baseline included
MaxLate == 1            \* seconds a cycle may take beyond stop.wait(interval_s)

\* memory_snapshot() of a host without swap whose MemAvailable is 4 %, 8 %
\* or 50 % of MemTotal
MemSnaps ==
    {[mem_total_kb |-> 1000, mem_available_kb |-> a, swap_total_kb |-> 0,
      swap_free_kb |-> 0, pswpout |-> 0] : a \in {40, 80, 500}}

NewMemoryDetector ==
    [prev |-> None, prev_ts |-> 0, cur_level |-> "OK",
     hit_warn |-> 0, hit_crit |-> 0, hit_ok |-> 0, last_emit_ts |-> 0]

\* _decide_level(_metrics(snap)); dt is t2 - t1 of _rates, dout its pages
DecideLevel(snap, dout, dt) ==
    LET total == snap.mem_total_kb
        swap_used == IF snap.swap_total_kb - snap.swap_free_kb > 0
                     THEN snap.swap_total_kb - snap.swap_free_kb ELSE 0
        mem_le(p) == IF total > 0 THEN snap.mem_available_kb * 100 <= p * total ELSE TRUE
        swap_ge(p) == IF snap.swap_total_kb > 0
                      THEN swap_used * 100 >= p * snap.swap_total_kb ELSE FALSE
        \* dout / max(0.001, dt) >= p
        out_ge(p) == IF dt > 0 THEN dout >= p * dt ELSE dout * 1000 >= p
    IN  IF mem_le(crit_mem_avail_pct) \/ swap_ge(crit_swap_used_pct)
           \/ out_ge(crit_swapout_ps)
        THEN "CRITICAL"
        ELSE IF mem_le(warn_mem_avail_pct) \/ swap_ge(warn_swap_used_pct)
                \/ out_ge(warn_swapout_ps)
        THEN "WARNING"
        ELSE "OK"

CanEmitAlways(det, t) == TRUE

\* _can_emit at time t
CanEmit(det, t) ==
    IF min_emit_interval_s <= 0 THEN TRUE ELSE t - det.last_emit_ts >= min_emit_interval_s

\* a variant in which a level is reported from every other level
MemFromAny(level) == {"OK", "WARNING", "CRITICAL"} \ {level}

\* poll: the values of self._cur_level from which a level is reported
\* (!= "CRITICAL"; == "OK"; in ("WARNING", "CRITICAL"))
MemFrom(level) ==
    IF level = "CRITICAL" THEN {"OK", "WARNING"}
    ELSE IF level = "WARNING" THEN {"OK"}
    ELSE {"WARNING", "CRITICAL"}

\* MemoryPressureDetector.poll(snap) at time t: the detector after it, the
\* level decided ("" on the baseline) and the severity emitted ("" for none)
MemPoll(det, snap, t) ==
    IF det.prev = None
    THEN [det |-> [det EXCEPT !.prev = snap.pswpout, !.prev_ts = t], level |-> "", sev |-> ""]
    ELSE
    LET dout == IF snap.pswpout - det.prev > 0 THEN snap.pswpout - det.prev ELSE 0
        level == DecideLevel(snap, dout, t - det.prev_ts)
        d1 == [det EXCEPT
                 !.hit_crit = IF level = "CRITICAL" THEN @ + 1 ELSE 0,
                 !.hit_warn = IF level = "WARNING" THEN @ + 1 ELSE 0,
                 !.hit_ok = IF level = "OK" THEN @ + 1 ELSE 0]
        sev == IF level = "CRITICAL" /\ d1.hit_crit >= hea05_consecutive
               THEN (IF d1.cur_level \in MemFrom("CRITICAL") /\ CanEmit(d1, t)
                     THEN "CRITICAL" ELSE "")
               ELSE IF level = "WARNING" /\ d1.hit_warn >= hea05_consecutive
               THEN (IF d1.cur_level \in MemFrom("WARNING") /\ CanEmit(d1, t)
                     THEN "WARNING" ELSE "")
               ELSE IF level = "OK" /\ d1.hit_ok >= clear_consecutive
               THEN (IF d1.cur_level \in MemFrom("OK") /\ CanEmit(d1, t)
                     THEN "INFO" ELSE "")
               ELSE ""
        d2 == IF sev = "" THEN d1
              ELSE [d1 EXCEPT !.cur_level = IF sev = "INFO" THEN "OK" ELSE sev,
                              !.last_emit_ts = t]
    IN  [det |-> [d2 EXCEPT !.prev = snap.pswpout, !.prev_ts = t],
         level |-> level, sev |-> sev]

\* The number of samples in a row poll wants at a level before it emits.
MemNeeded(level) == IF level = "OK" THEN clear_consecutive ELSE hea05_consecutive

\* history: n polls made; the run of evaluated samples at one level that is
\* going on (its level, its length, the detector's level when it began, the
\* events poll returned in it, the sample of the run that returned the
\* last of them, and free: the last event of the detector lay
\* min_emit_interval_s or more behind when the run reached the length poll
\* wants); the same of the run before it.
NoMemRun ==
    [level |-> "", len |-> 0, before |-> "OK", emitted |-> 0, at |-> 0, free |-> FALSE]

NoMemHist == [n |-> 0, run |-> NoMemRun, last |-> NoMemRun]

\* _hea05_loop: the baseline poll (n = 0, its events are discarded and an
\* exception of it is passed over) or one cycle of the loop, which ends in
\* stop.wait(interval_s).
Hea05Cycle(snap, snap_ok, late) ==
    /\ mem_hist.n < MaxMemPolls
    /\ LET r == IF snap_ok THEN MemPoll(mem_det, snap, clock)
                ELSE [det |-> mem_det, level |-> "", sev |-> ""]
           cur == mem_hist.run
           free == clock - mem_det.last_emit_ts >= min_emit_interval_s
           said == IF r.sev # "" THEN 1 ELSE 0
       IN  /\ mem_det' = r.det
           /\ mem_hist' =
                IF r.level = "" THEN [mem_hist EXCEPT !.n = @ + 1]
                ELSE IF r.level = cur.level
                THEN [mem_hist EXCEPT
                        !.n = @ + 1,
                        !.run = [cur EXCEPT !.len = @ + 1,
                                            !.emitted = @ + said,
                                            !.at = IF said = 1 THEN cur.len + 1 ELSE @,
                                            !.free = IF cur.len + 1 = MemNeeded(r.level)
                                                     THEN free ELSE @]]
                ELSE [n |-> mem_hist.n + 1,
                      run |-> [level |-> r.level, len |-> 1, before |-> mem_det.cur_level,
                               emitted |-> said, at |-> said,
                               free |-> MemNeeded(r.level) = 1 /\ free],
                      last |-> cur]
           /\ clock' = IF mem_hist.n = 0 THEN clock ELSE clock + Hea05Interval + late
    /\ UNCHANGED <<storeVars, sec01Vars, sec02Vars, sec03Vars, sec04Vars, sec05Vars,
                   tempVars, disk_det, disk_hist, svc_det, svc_hist, win, tail>>

InitMemory ==
    /\ mem_det = NewMemoryDetector
    /\ mem_hist = NoMemHist

NextMemory ==
    \E snap \in MemSnaps, snap_ok \in BOOLEAN, late \in 0..MaxLate :
        Hea05Cycle(snap, snap_ok, late)

\* C25 as stated: when two or more samples in a row are at CRITICAL level
\* and the detector's level before them was not CRITICAL, poll has returned
\* exactly one CRITICAL event for them, on the second; when three or more
\* samples at OK level follow while the detector's level is CRITICAL, poll
\* has returned exactly one INFO event for them, on the third.
C25_OneCriticalOnSecondOneClearOnThird ==
    /\ (mem_hist.run.level = "CRITICAL" /\ mem_hist.run.before # "CRITICAL"
        /\ mem_hist.run.len >= 2)
       => mem_hist.run.emitted = 1 /\ mem_hist.run.at = 2
    /\ (mem_hist.run.level = "OK" /\ mem_hist.run.before = "CRITICAL"
        /\ mem_hist.run.len >= 3)
       => mem_hist.run.emitted = 1 /\ mem_hist.run.at = 3

\* C25 amended: samples in a row at CRITICAL level that began at another
\* level of the detector yield at most one CRITICAL event, never on the
\* first, and yield it on the second exactly when the detector's last event
\* then lay 15 s or more behind; three or more samples at OK level while
\* the detector's level is CRITICAL yield exactly one INFO event, on the
\* third.
C25_OneCriticalOnSecondUnlessRateLimited ==
    /\ (mem_hist.run.level = "CRITICAL" /\ mem_hist.run.before # "CRITICAL"
        /\ mem_hist.run.len >= 2)
       => /\ mem_hist.run.emitted <= 1
          /\ mem_hist.run.emitted = 1 => mem_hist.run.at >= 2
          /\ mem_hist.run.free <=> (mem_hist.run.emitted = 1 /\ mem_hist.run.at = 2)
    /\ (mem_hist.run.level = "CRITICAL" /\ mem_hist.run.len = 1)
       => mem_hist.run.emitted = 0
    /\ (mem_hist.run.level = "OK" /\ mem_hist.run.before = "CRITICAL"
        /\ mem_hist.run.len >= 3)
       => mem_hist.run.emitted = 1 /\ mem_hist.run.at = 3

\* C25 witness: after the baseline, three samples at CRITICAL level gave one
\* CRITICAL event on the second, and the three samples at OK level after
\* them gave one INFO event on the third.
C25_Witness ==
    /\ mem_hist.last.level = "CRITICAL" /\ mem_hist.last.before = "OK"
    /\ mem_hist.last.len = 3 /\ mem_hist.last.emitted = 1 /\ mem_hist.last.at = 2
    /\ mem_hist.run.level = "OK" /\ mem_hist.run.len = 3
    /\ mem_hist.run.emitted = 1 /\ mem_hist.run.at = 3
    /\ mem_det.cur_level = "OK"

\* The transition poll makes at a level when the rate limit allows it: the
\* samples in a row at the level are as many as poll wants and the
\* detector's level is one the level is reported from.
MemDue(det, level) ==
    /\ det.cur_level \in MemFrom(level)
    /\ (IF level = "CRITICAL" THEN det.hit_crit
        ELSE IF level = "WARNING" THEN det.hit_warn
        ELSE det.hit_ok) >= MemNeeded(level)

\* C37: an event is returned min_emit_interval_s or more after the one
\* before it; the detector's level changes only in a poll that returns an
\* event, so a transition the rate limit holds back leaves it as it was; and
\* every evaluated poll at which a transition is due and the last event lies
\* min_emit_interval_s or more behind returns the event.
C37_EventsAnIntervalApartAndBlockedOnesFollow ==
    [][
        /\ (mem_det'.last_emit_ts # mem_det.last_emit_ts) =>
              /\ mem_det'.last_emit_ts = clock
              /\ clock - mem_det.last_emit_ts >= min_emit_interval_s
              /\ mem_hist'.run.emitted >= 1 /\ mem_hist'.run.at = mem_hist'.run.len
        /\ (mem_det'.cur_level # mem_det.cur_level) => mem_det'.last_emit_ts = clock
        /\ (mem_hist'.run # mem_hist.run
            /\ MemDue([mem_det' EXCEPT !.cur_level = mem_det.cur_level], mem_hist'.run.level)) =>
              IF clock - mem_det.last_emit_ts >= min_emit_interval_s
              THEN /\ mem_det'.last_emit_ts = clock
                   /\ mem_det'.cur_level = (IF mem_hist'.run.level = "OK" THEN "OK"
                                            ELSE mem_hist'.run.level)
              ELSE /\ mem_det'.last_emit_ts = mem_det.last_emit_ts
                   /\ mem_det'.cur_level = mem_det.cur_level
    ]_vars

\* C37 witness: the event of a run of samples at CRITICAL level was held
\* back on the second sample by the rate limit and returned on a later one.
C37_Witness ==
    /\ mem_hist.run.level = "CRITICAL" /\ mem_hist.run.before = "WARNING"
    /\ ~mem_hist.run.free
    /\ mem_hist.run.emitted = 1 /\ mem_hist.run.at > hea05_consecutive
    /\ mem_det.cur_level = "CRITICAL" /\ mem_det.last_emit_ts = clock - Hea05Interval

\* C39: while the detector's level is CRITICAL an evaluated poll at WARNING
\* or CRITICAL level returns no event and leaves the level CRITICAL; the
\* level leaves CRITICAL only for OK, in a poll at OK level that returns
\* the event; and a poll returns a CRITICAL event only from another level.
C39_NoSecondCriticalBeforeCleared ==
    [][
        /\ (mem_det.cur_level = "CRITICAL" /\ mem_hist'.run # mem_hist.run
            /\ mem_hist'.run.level \in {"WARNING", "CRITICAL"}) =>
              /\ mem_det'.cur_level = "CRITICAL"
              /\ mem_det'.last_emit_ts = mem_det.last_emit_ts
              /\ mem_hist'.run.at # mem_hist'.run.len
        /\ (mem_det.cur_level = "CRITICAL" /\ mem_det'.cur_level # "CRITICAL") =>
              /\ mem_det'.cur_level = "OK"
              /\ mem_hist'.run.level = "OK" /\ mem_hist'.run.at = mem_hist'.run.len
              /\ mem_det'.last_emit_ts = clock
        /\ (mem_hist'.run # mem_hist.run /\ mem_hist'.run.level = "CRITICAL"
            /\ mem_hist'.run.at = mem_hist'.run.len) =>
              mem_det.cur_level # "CRITICAL" /\ mem_det'.cur_level = "CRITICAL"
    ]_vars

\* C39 witness: with the level CRITICAL, two samples at WARNING level and
\* then two at CRITICAL level have been evaluated and none returned an event.
C39_Witness ==
    /\ mem_det.cur_level = "CRITICAL"
    /\ mem_hist.last.level = "WARNING" /\ mem_hist.last.before = "CRITICAL"
    /\ mem_hist.last.len >= hea05_consecutive /\ mem_hist.last.emitted = 0
    /\ mem_hist.run.level = "CRITICAL" /\ mem_hist.run.before = "CRITICAL"
    /\ mem_hist.run.len >= hea05_consecutive /\ mem_hist.run.emitted = 0

(***************************************************************************)
(* The sliding-window counters of SEC-01, SEC-02 and SEC-03 fed with one   *)
(* sequence of failure timestamps, as their handle_line feeds them: the    *)
(* time of the line is appended, then the counter is pruned at that time;  *)
(* SEC-02 prunes also at the time of a success line.                       *)
(***************************************************************************)
MaxWinRecords == 4      \* failure lines in one behaviour
MaxWinSpan == 125       \* seconds one behaviour spans

WinSteps == {30, 59, 61}

NoWin == [rec |-> <<>>, ts01 |-> <<>>, q02 |-> <<>>, q03 |-> <<>>, pruned |-> FALSE]

\* the recorded timestamps t with now - window <= t <= now
InWindow(rec, window, t) == SelectSeq(rec, LAMBDA x : t - window <= x /\ x <= t)

\* a failure line at the time of the clock
WinFail ==
    /\ Len(win.rec) < MaxWinRecords
    /\ win' = [rec |-> Append(win.rec, clock),
               ts01 |-> Sec01Prune(Append(win.ts01, clock), clock),
               q02 |-> PruneDeque(Append(win.q02, clock), FAIL_WINDOW_SEC, clock),
               q03 |-> PruneDeque(Append(win.q03, clock), FAIL_CRIT_WINDOW, clock),
               pruned |-> TRUE]
    /\ UNCHANGED <<clock, storeVars, sec01Vars, sec02Vars, sec03Vars, sec04Vars, sec05Vars,
                   tempVars, disk_det, disk_hist, svc_det, svc_hist, mem_det, mem_hist, tail>>

\* a success line at the time of the clock: SEC-02 prunes the failures
WinSuccess ==
    /\ win.rec # <<>>
    /\ win' = [win EXCEPT !.q02 = PruneDeque(@, FAIL_WINDOW_SEC, clock), !.pruned = TRUE]
    /\ UNCHANGED <<clock, storeVars, sec01Vars, sec02Vars, sec03Vars, sec04Vars, sec05Vars,
                   tempVars, disk_det, disk_hist, svc_det, svc_hist, mem_det, mem_hist, tail>>

\* time passes: no counter has been pruned at the new time yet
WinTick ==
    \E d \in WinSteps :
        /\ clock + d <= BootTime + MaxWinSpan
        /\ clock' = clock + d
        /\ win' = [win EXCEPT !.pruned = FALSE]
        /\ UNCHANGED <<storeVars, sec01Vars, sec02Vars, sec03Vars, sec04Vars, sec05Vars,
                       tempVars, disk_det, disk_hist, svc_det, svc_hist, mem_det, mem_hist, tail>>

InitWindows == win = NoWin

NextWindows == WinTick \/ WinFail \/ WinSuccess

\* C28: right after a counter was pruned at the time of the clock, it holds
\* as many timestamps as were recorded within [now - window, now]: SEC-01
\* and SEC-03 after a failure line, SEC-02 after a failure or a success
\* line; the timestamps SEC-03 counts for its 1-minute threshold are those
\* of the last FAIL_WARN_WINDOW seconds.
C28_CountEqualsRecordedInWindow ==
    /\ win.pruned => Len(win.q02) = Len(InWindow(win.rec, FAIL_WINDOW_SEC, clock))
    /\ (win.pruned /\ win.rec # <<>> /\ win.rec[Len(win.rec)] = clock) =>
          /\ Len(win.ts01) = Len(InWindow(win.rec, window_s, clock))
          /\ Len(win.q03) = Len(InWindow(win.rec, FAIL_CRIT_WINDOW, clock))
          /\ Len(SelectSeq(win.q03, LAMBDA x : clock - x <= FAIL_WARN_WINDOW))
               = Len(InWindow(win.rec, FAIL_WARN_WINDOW, clock))

\* C28 witness: a pruning has dropped timestamps from every counter and
\* kept one that lies exactly a window back.
C28_Witness ==
    /\ win.pruned /\ Len(win.rec) = MaxWinRecords /\ win.rec[Len(win.rec)] = clock
    /\ Len(win.ts01) < Len(win.rec) /\ Len(win.q03) < Len(win.rec)
    /\ Head(win.ts01) = clock - window_s

(***************************************************************************)
(* The tailing loop of run_authlog_security: tail_file yields the lines    *)
(* appended to the log after it was opened, the loop passes each to the    *)
(* detectors of its list and stores what they return.  A line is named by  *)
(* its position among the lines appended.                                  *)
(***************************************************************************)
MaxTailLines == 2       \* lines appended to the log in one behaviour
MaxOtherStores == 1     \* events the worker threads store meanwhile

DetectorsSwapped == <<"SEC-02", "SEC-01", "SEC-03">>

\* detectors = [("SEC-01", det_sec01), ("SEC-02", det_sec02), ("SEC-03", det_sec03)]
Detectors == <<"SEC-01", "SEC-02", "SEC-03">>

\* What one pass of the inner loop can do: handle_line returns nothing,
\* raises, or returns an event that add_event stores or fails to store.
TailOutcomes == {"nothing", "raised", "stored", "OperationalError"}

NoTail ==
    [written |-> 0, offset |-> 0, line |-> 0, idx |-> 0, next_id |-> 1, others |-> 0,
     left |-> FALSE, calls |-> <<>>, stored |-> <<>>, raised |-> {}]

\* a writer appends a line to the log
TailAppend ==
    /\ tail.written < MaxTailLines
    /\ tail' = [tail EXCEPT !.written = @ + 1]
    /\ UNCHANGED <<clock, storeVars, sec01Vars, sec02Vars, sec03Vars, sec04Vars, sec05Vars,
                   tempVars, disk_det, disk_hist, svc_det, svc_hist, mem_det, mem_hist, win>>

\* tail_file: f.readline() finds a line and yields it
TailYield ==
    /\ ~tail.left /\ tail.line = 0
    /\ tail.offset < tail.written
    /\ tail' = [tail EXCEPT !.offset = @ + 1, !.line = tail.offset + 1, !.idx = 1]
    /\ UNCHANGED <<clock, storeVars, sec01Vars, sec02Vars, sec03Vars, sec04Vars, sec05Vars,
                   tempVars, disk_det, disk_hist, svc_det, svc_hist, mem_det, mem_hist, win>>

\* One pass of "for code, det in detectors" for the line: det.handle_line
\* inside try / except Exception: continue; then add_event and
\* _maybe_notify outside that try.
TailHandle(out) ==
    /\ ~tail.left /\ tail.line # 0
    /\ LET code == Detectors[tail.idx]
           made == [line |-> tail.line, code |-> code]
           done == tail.idx = Len(Detectors)
       IN  tail' =
             [tail EXCEPT
                !.calls = Append(@, made),
                !.raised = IF out = "raised" THEN @ \cup {made} ELSE @,
                !.stored = IF out = "stored"
                           THEN Append(@, [id |-> tail.next_id, line |-> tail.line,
                                           code |-> code, ncalls |-> Len(tail.calls) + 1])
                           ELSE @,
                !.next_id = IF out = "stored" THEN @ + 1 ELSE @,
                !.left = out = "OperationalError",
                !.idx = IF out = "OperationalError" THEN @ ELSE IF done THEN 0 ELSE @ + 1,
                !.line = IF out # "OperationalError" /\ done THEN 0 ELSE @]
    /\ UNCHANGED <<clock, storeVars, sec01Vars, sec02Vars, sec03Vars, sec04Vars, sec05Vars,
                   tempVars, disk_det, disk_hist, svc_det, svc_hist, mem_det, mem_hist, win>>

\* a worker thread stores an event of its own: it takes the next id
TailOtherStore ==
    /\ tail.others < MaxOtherStores
    /\ tail' = [tail EXCEPT !.others = @ + 1, !.next_id = @ + 1]
    /\ UNCHANGED <<clock, storeVars, sec01Vars, sec02Vars, sec03Vars, sec04Vars, sec05Vars,
                   tempVars, disk_det, disk_hist, svc_det, svc_hist, mem_det, mem_hist, win>>

InitTail == tail = NoTail

NextTail ==
    \/ TailAppend
    \/ TailYield
    \/ \E out \in TailOutcomes : TailHandle(out)
    \/ TailOtherStore

\* C29: the handle_line calls made are, in order, line 1 to SEC-01, SEC-02,
\* SEC-03, then line 2 to SEC-01, SEC-02, SEC-03, and so on with no call
\* left out; an event is stored right after the call that returned it,
\* before the next call; the events stored have ids that grow with (line,
\* detector); and after a detector has raised on a line the next detector
\* of the list is called with that line.
C29_LinesAndDetectorsInOrder ==
    LET order == <<"SEC-01", "SEC-02", "SEC-03">>
        rank(c) == (c.line - 1) * 3 + (CHOOSE i \in 1..3 : order[i] = c.code)
    IN  /\ \A k \in 1..Len(tail.calls) :
              /\ tail.calls[k].line = ((k - 1) \div 3) + 1
              /\ tail.calls[k].code = order[((k - 1) % 3) + 1]
        /\ \A k \in 1..Len(tail.stored) :
              tail.calls[tail.stored[k].ncalls] =
                  [line |-> tail.stored[k].line, code |-> tail.stored[k].code]
        /\ \A i, j \in 1..Len(tail.stored) :
              i < j => /\ tail.stored[i].id < tail.stored[j].id
                       /\ rank(tail.stored[i]) < rank(tail.stored[j])
        /\ \A c \in tail.raised :
              c.code # order[3] =>
                 \/ \E k \in 1..Len(tail.calls) :
                       tail.calls[k].line = c.line /\ rank(tail.calls[k]) = rank(c) + 1
                 \/ ~tail.left /\ tail.line = c.line /\ Detectors[tail.idx] # c.code

\* C29 witness: SEC-01 raised on line 1, SEC-02 and SEC-03 were called with
\* it all the same and SEC-03 stored an event; line 2 gave an event of
\* SEC-01, with a worker's event stored in between.
C29_Witness ==
    /\ [line |-> 1, code |-> "SEC-01"] \in tail.raised
    /\ Len(tail.stored) = 2
    /\ tail.stored[1].line = 1 /\ tail.stored[1].code = "SEC-03"
    /\ tail.stored[2].line = 2 /\ tail.stored[2].code = "SEC-01"
    /\ tail.stored[2].id > tail.stored[1].id + 1

(***************************************************************************)
(* The specifications.                                                     *)
(***************************************************************************)
Init ==
    /\ now = StartTime
    /\ InitEvents
    /\ InitFlags
    /\ InitFirstSeen
    /\ InitNotifier
    /\ InitDispatch
    /\ InitMonitor
    /\ clock = BootTime
    /\ InitSec01
    /\ InitSec02
    /\ InitSec03
    /\ InitSec04
    /\ InitSec05
    /\ InitTemp
    /\ InitDisk
    /\ InitServices
    /\ InitMemory
    /\ InitWindows
    /\ InitTail

SpecEvents == Init /\ [][NextEvents]_vars

SpecFlags == Init /\ [][NextFlags]_vars

SpecFlagRace == Init /\ [][NextFlagRace]_vars

SpecFirstSeen == Init /\ [][NextFirstSeen]_vars

SpecNotifier == Init /\ [][NextNotifier]_vars

SpecDispatch == Init /\ [][NextDispatch]_vars

SpecMonitor == Init /\ [][NextMonitor]_vars

SpecSec01 == Init /\ [][NextSec01]_vars

SpecSec02 == Init /\ [][NextSec02]_vars

SpecSec03 == Init /\ [][NextSec03]_vars

SpecSec04 == Init /\ [][NextSec04]_vars

SpecSec05 == Init /\ [][NextSec05]_vars

SpecSec05Long == Init /\ [][NextSec05Long]_vars

SpecSec05Sev == Init /\ [][NextSec05Sev]_vars

SpecTemp == Init /\ [][NextTemp]_vars

SpecDisk == Init /\ [][NextDisk]_vars

SpecServices == Init /\ [][NextServices]_vars

SpecMemory == Init /\ [][NextMemory]_vars

SpecWindows == Init /\ [][NextWindows]_vars

SpecTail == Init /\ [][NextTail]_vars

====
